---- MODULE Spec2Model ----
(***************************************************************************)
(* Model of tank.platform.engine (src/python/tank/platform/engine.py):    *)
(* engine start, component load, command registry, context change and     *)
(* teardown.  Every public operation is one action that carries out the    *)
(* whole handler; the calls into code outside the module (descriptors,     *)
(* validation, hooks, app code) are inputs drawn with \E.                  *)
(***************************************************************************)
EXTENDS Integers, Sequences, FiniteSets, TLC

VARIABLES
    g_current_engine,   \* module global g_current_engine: 0 = None, else an engine id
    engines,            \* engine objects constructed so far: engine id -> Engine fields
    dict_order,         \* iteration order of a dict keyed by app instance names
    last,               \* the call the host made last and what it returned
    faults,             \* misbehaviours of code outside the module so far
    reg,                \* registry-level harness: registrations made since the last reset
    inv                 \* threads, the Invoker's lock and slots, the main thread's queue

vars == <<g_current_engine, engines, dict_order, last, faults, reg, inv>>

----------------------------------------------------------------------------
(* Bounds *)

MaxEngines == 2        \* engine objects constructed in one behaviour
MaxObjs == 3           \* app objects constructed by one engine
MaxFaults == 1         \* misbehaving apps and raising outside calls in one behaviour
MaxRegs == 4           \* register_command calls in the registry-level harness

----------------------------------------------------------------------------
(* Configuration fixture: contexts, environments, descriptors, app classes *)

Contexts == {"c0", "c1", "c2", "c3", "c4"}
EngineName == "tk-maya"
InstNames == {"a", "b"}
NoCtx == ""

\* the pick_environment core hook: the environment name for a context, "" = None
pick_environment(ctx) ==
    CASE ctx \in {"c1", "c4"} -> "env1"
      [] ctx = "c2" -> "env2"
      [] ctx = "c3" -> "env3"
      [] OTHER -> ""

\* constants.SHOTGUN_ENGINE_NAME
SHOTGUN_ENGINE_NAME == "tk-shotgun"

\* env.get_engines()
get_engines(env) ==
    IF env \in {"env1", "env2", "env3"} THEN {EngineName}
    ELSE IF env = "shotgun_task" THEN {SHOTGUN_ENGINE_NAME}
    ELSE {}

\* env.get_engine_descriptor(engine_name)
get_engine_descriptor(env) ==
    IF env = "env3" THEN "d2" ELSE IF env = "shotgun_task" THEN "d3" ELSE "d1"

\* env.get_apps(engine) with env.get_app_descriptor(engine, app).get_path()
get_apps(env) ==
    CASE env = "env1" -> << [name |-> "a", path |-> "pA"], [name |-> "b", path |-> "pA"] >>
      [] env = "env2" -> << [name |-> "a", path |-> "pA"], [name |-> "b", path |-> "pB"] >>
      [] env = "env3" -> << [name |-> "b", path |-> "pB"] >>
      [] env = "shotgun_task" -> << [name |-> "a", path |-> "pA"] >>
      [] OTHER -> << >>

\* the context_change_allowed property of the app class installed at a path
app_context_change_allowed(path) == path = "pA"

\* the context_change_allowed property of the engine class of a descriptor
engine_context_change_allowed(descriptor) == descriptor = "d1"

\* descriptor.is_dev() of the app installed at a path
is_dev(path) == path = "pB"

\* the command names the init_app of the app class at a path registers
init_app_commands(path) == IF path = "pA" THEN << "Foo" >> ELSE << "Bar" >>

\* whether the engine class overrides _emit_log_message
has_018_logging_support(descriptor) == descriptor = "d1"

\* the has_ui property of the engine class
has_ui(descriptor) == descriptor = "d1"

\* the metrics_dispatch_allowed property of the engine class
metrics_dispatch_allowed(descriptor) == descriptor = "d1"

\* the frameworks setup_frameworks creates for the engine of a descriptor
engine_frameworks(descriptor) ==
    { [name |-> "fw_own", is_shared |-> FALSE], [name |-> "fw_shared", is_shared |-> TRUE] }

----------------------------------------------------------------------------
(* Dictionaries *)

EmptyMap == [x \in {} |-> 0]

Put(m, k, v) == [x \in (DOMAIN m) \cup {k} |-> IF x = k THEN v ELSE m[x]]

Del(m, k) == [x \in (DOMAIN m) \ {k} |-> m[x]]

\* m.update(n)
Update(m, n) == [x \in (DOMAIN m) \cup (DOMAIN n) |-> IF x \in DOMAIN n THEN n[x] ELSE m[x]]

\* the keys of a dict keyed by instance names, in iteration order
KeysInOrder(m, ord) == SelectSeq(ord, LAMBDA k : k \in DOMAIN m)

\* every order in which the keys of S can be met
Orderings(S) == { p \in [1..Cardinality(S) -> S] : \A x \in S : \E i \in DOMAIN p : p[i] = x }

----------------------------------------------------------------------------
(* Engine objects and call frames *)

\* Engine.__init__, the fields set before any call that can fail
NewEngine(name, env, ctx) ==
    [ instance_name |-> name,
      env |-> env,
      context |-> ctx,
      descriptor |-> get_engine_descriptor(env),
      applications |-> EmptyMap,
      application_pool |-> EmptyMap,
      shared_frameworks |-> {},
      frameworks |-> {},
      commands |-> EmptyMap,
      command_pool |-> EmptyMap,
      panels |-> EmptyMap,
      currently_initializing_app |-> 0,
      commands_that_need_prefixing |-> {},
      invoker |-> FALSE,
      async_invoker |-> FALSE,
      metrics_dispatcher |-> "none",
      log_handler |-> FALSE,
      destroyed |-> FALSE,
      objs |-> << >>,
      ents |-> << >> ]

NullEngine == NewEngine("", "", NoCtx)

\* a call in progress: the engine it runs on, the module global, the trace of
\* the calls it made so far and the exception that is propagating ("" = none)
Frame(e, slot) == [ e |-> e, g_current_engine |-> slot, log |-> << >>, err |-> "" ]

Ev(k, o, n, c) == [k |-> k, o |-> o, n |-> n, c |-> c]

Log(F, k, o, n) == [F EXCEPT !.log = Append(@, Ev(k, o, n, F.e.context))]

Raise(F, kind) == [F EXCEPT !.err = kind]

\* sequencing: the next statement runs unless an exception is propagating
Then(F, Op(_)) == IF F.err # "" THEN F ELSE Op(F)

\* a call into code outside the module that raises when the input says so
Call(F, point, fault, kind) ==
    IF fault = point THEN Raise(Log(F, point, 0, ""), kind) ELSE Log(F, point, 0, "")

----------------------------------------------------------------------------
(* Command registry *)

\* "%s:%s" % (prefix, name)
PrefixedName(prefix, name) == prefix \o ":" \o name

\* the collided name is not remembered: the registration that follows a
\* rename is stored without a prefix
register_command_forgets_collision(F, name, callback) ==
    LET E == F.e
        app == E.currently_initializing_app
        collide == name \in DOMAIN E.commands /\ E.ents[E.commands[name]].app # 0
        existing_item == E.commands[name]
        prefix == E.objs[E.ents[existing_item].app].instance_name
        new_name_for_existing == PrefixedName(prefix, name)
        commands1 == IF collide
                     THEN Del(Put(E.commands, new_name_for_existing, existing_item), name)
                     ELSE E.commands
        ents1 == IF collide THEN [E.ents EXCEPT ![existing_item].prefix = prefix] ELSE E.ents
        needs1 == E.commands_that_need_prefixing
        prefixed == name \in needs1 /\ app # 0
        own_prefix == E.objs[app].instance_name
        name2 == IF prefixed THEN PrefixedName(own_prefix, name) ELSE name
        entry == [ callback |-> callback, app |-> app,
                   prefix |-> IF prefixed THEN own_prefix ELSE "" ]
    IN  [F EXCEPT !.e.commands = Put(commands1, name2, Len(ents1) + 1),
                  !.e.ents = Append(ents1, entry),
                  !.e.commands_that_need_prefixing = needs1]

\* Engine.register_command(name, callback, properties)
register_command(F, name, callback) ==
    LET E == F.e
        app == E.currently_initializing_app
        collide == name \in DOMAIN E.commands /\ E.ents[E.commands[name]].app # 0
        existing_item == E.commands[name]
        prefix == E.objs[E.ents[existing_item].app].instance_name
        new_name_for_existing == PrefixedName(prefix, name)
        commands1 == IF collide
                     THEN Del(Put(E.commands, new_name_for_existing, existing_item), name)
                     ELSE E.commands
        ents1 == IF collide THEN [E.ents EXCEPT ![existing_item].prefix = prefix] ELSE E.ents
        needs1 == IF collide THEN E.commands_that_need_prefixing \cup {name}
                  ELSE E.commands_that_need_prefixing
        prefixed == name \in needs1 /\ app # 0
        own_prefix == E.objs[app].instance_name
        name2 == IF prefixed THEN PrefixedName(own_prefix, name) ELSE name
        entry == [ callback |-> callback, app |-> app,
                   prefix |-> IF prefixed THEN own_prefix ELSE "" ]
    IN  [F EXCEPT !.e.commands = Put(commands1, name2, Len(ents1) + 1),
                  !.e.ents = Append(ents1, entry),
                  !.e.commands_that_need_prefixing = needs1]

----------------------------------------------------------------------------
(* Inputs of a component load pass: what the code outside the module does   *)
(* for each declared app                                                    *)

\* local: descriptor.exists_local(); valid: the validation block passes;
\* reuse: the in-place update ("fw" = setup_frameworks raises, "hook" =
\* post_context_change raises); build: the construction ("fw" =
\* get_application or setup_frameworks raises, "init" = init_app raises after
\* it registered its commands); pei: post_engine_init raises
AppOk == [local |-> TRUE, valid |-> TRUE, reuse |-> "ok", build |-> "ok", pei |-> FALSE]

AppOutcomes ==
    { o \in [local : BOOLEAN, valid : BOOLEAN, reuse : {"ok", "fw", "hook"},
              build : {"ok", "fw", "init"}, pei : BOOLEAN] :
        /\ (~o.local) => o = [AppOk EXCEPT !.local = FALSE]
        /\ (~o.valid) => o = [AppOk EXCEPT !.valid = FALSE]
        /\ o.pei => o.build = "ok" }

\* 1 for an app that misbehaves in the pass, in whatever way
Deviations(o) == IF o = AppOk THEN 0 ELSE 1

RECURSIVE CostOf(_, _)
CostOf(orc, names) ==
    IF names = {} THEN 0
    ELSE LET n == CHOOSE x \in names : TRUE
         IN  Deviations(orc[n]) + CostOf(orc, names \ {n})

\* the apps that misbehave in one load pass
Cost(orc) == CostOf(orc, DOMAIN orc)

\* the inputs of one pass over the apps of an environment in which the apps
\* misbehave at least once and at most budget times
LoadInputs(env, budget) ==
    LET names == { get_apps(env)[i].name : i \in DOMAIN get_apps(env) }
    IN  { orc \in [names -> AppOutcomes] : Cost(orc) >= 1 /\ Cost(orc) <= budget }

AllOk(env) == [n \in { get_apps(env)[i].name : i \in DOMAIN get_apps(env) } |-> AppOk]

----------------------------------------------------------------------------
(* Engine.__load_apps *)

RECURSIVE RegisterAll(_, _, _)
\* app.init_app(): one register_command per command of the app class
RegisterAll(F, names, i) ==
    IF i > Len(names) THEN F
    ELSE RegisterAll(register_command(F, names[i], Len(F.e.ents) + 1), names, i + 1)

\* the in-place update of a pooled app (the try block of the reuse branch)
ReuseApp(F, d, old_context, o) ==
    LET E == F.e
        app == E.application_pool[d.path][d.name]
        F1 == Log([F EXCEPT !.e.objs[app].context = E.context,
                            !.e.objs[app].settings = E.env,
                            !.e.objs[app].instance_name = d.name],
                  "reuse", app, d.name)
        mine == { k \in DOMAIN E.command_pool : E.ents[E.command_pool[k]].app = app }
        F2 == [F1 EXCEPT !.e.commands = Update(@, [k \in mine |-> E.command_pool[k]])]
        F3 == Log(F2, "post_context_change", app, d.name)
    IN  IF o.reuse = "fw" THEN Log(F1, "reuse_failed", app, d.name)
        ELSE IF o.reuse = "hook" THEN Log(F3, "reuse_failed", app, d.name)
        ELSE [F3 EXCEPT !.e.applications = Put(@, d.name, app)]

\* the else branch taken also after a failure: the app is recorded although
\* its construction raised
BuildApp_keeps_failed(F, d, o) ==
    LET E == F.e
        app == Len(E.objs) + 1
        obj == [path |-> d.path, instance_name |-> d.name,
                context |-> E.context, settings |-> E.env]
        F1 == Log([F EXCEPT !.e.objs = Append(@, obj),
                            !.e.currently_initializing_app = app],
                  "init_app", app, d.name)
        F2 == [RegisterAll(F1, init_app_commands(d.path), 1)
                   EXCEPT !.e.currently_initializing_app = 0]
    IN  IF o.build = "fw" THEN Log(F, "build_failed", 0, d.name)
        ELSE IF o.build = "init"
        THEN [Log(F2, "init_failed", app, d.name) EXCEPT !.e.applications = Put(@, d.name, app)]
        ELSE [F2 EXCEPT !.e.applications = Put(@, d.name, app)]

\* the construction of a fresh app (the try block under "load the app")
BuildApp(F, d, o) ==
    LET E == F.e
        app == Len(E.objs) + 1
        obj == [path |-> d.path, instance_name |-> d.name,
                context |-> E.context, settings |-> E.env]
        F1 == Log([F EXCEPT !.e.objs = Append(@, obj),
                            !.e.currently_initializing_app = app],
                  "init_app", app, d.name)
        F2 == [RegisterAll(F1, init_app_commands(d.path), 1)
                   EXCEPT !.e.currently_initializing_app = 0]
    IN  IF o.build = "fw" THEN Log(F, "build_failed", 0, d.name)
        ELSE IF o.build = "init" THEN Log(F2, "init_failed", app, d.name)
        ELSE [F2 EXCEPT !.e.applications = Put(@, d.name, app)]

RECURSIVE PoolUpdate(_, _, _, _)
\* "for app in self.__applications.values()": the update of the application pool
PoolUpdate(E, keys, i, app_instance_name) ==
    IF i > Len(keys) THEN E
    ELSE LET app == E.applications[keys[i]]
             app_path == E.objs[app].path
             slot == IF app_path \in DOMAIN E.application_pool
                     THEN E.application_pool[app_path] ELSE EmptyMap
             E1 == IF app_context_change_allowed(app_path)
                   THEN [E EXCEPT !.application_pool =
                                     Put(@, app_path, Put(slot, app_instance_name, app))]
                   ELSE E
         IN  PoolUpdate(E1, keys, i + 1, app_instance_name)

\* the pools are rebuilt from what is active now: whatever is not active is
\* dropped
SnapshotPools_active_only(F, app_instance_name, ord) ==
    LET E0 == [F.e EXCEPT !.application_pool = EmptyMap]
        E1 == PoolUpdate(E0, KeysInOrder(E0.applications, ord), 1, app_instance_name)
    IN  [F EXCEPT !.e = [E1 EXCEPT !.command_pool = E1.commands]]

\* only the application pool is updated: the commands are not snapshotted
SnapshotPools_without_commands(F, app_instance_name, ord) ==
    [F EXCEPT !.e = PoolUpdate(F.e, KeysInOrder(F.e.applications, ord), 1, app_instance_name)]

\* the two pool updates that end an iteration of the load loop
SnapshotPools(F, app_instance_name, ord) ==
    LET E1 == PoolUpdate(F.e, KeysInOrder(F.e.applications, ord), 1, app_instance_name)
    IN  [F EXCEPT !.e = [E1 EXCEPT !.command_pool = Update(@, E1.commands)]]

\* the "continue" of the validation handlers left out: an app that fails
\* validation is loaded all the same
LoadOne_loads_invalid(F, d, reuse_existing_apps, old_context, o, ord) ==
    LET pool == F.e.application_pool
        in_pool == /\ reuse_existing_apps
                   /\ d.path \in DOMAIN pool
                   /\ old_context # NoCtx
                   /\ d.name \in DOMAIN pool[d.path]
        F1 == IF in_pool THEN ReuseApp(F, d, old_context, o) ELSE F
    IN  IF ~o.local THEN Log(F, "skip_missing", 0, d.name)
        ELSE IF in_pool /\ o.reuse = "ok" THEN F1
        ELSE SnapshotPools(BuildApp(F1, d, o), d.name, ord)

\* the failure of the in-place update is not followed by a construction: the
\* app is left out
LoadOne_gives_up_after_reuse(F, d, reuse_existing_apps, old_context, o, ord) ==
    LET pool == F.e.application_pool
        in_pool == /\ reuse_existing_apps
                   /\ d.path \in DOMAIN pool
                   /\ old_context # NoCtx
                   /\ d.name \in DOMAIN pool[d.path]
        F1 == IF in_pool THEN ReuseApp(F, d, old_context, o) ELSE F
    IN  IF ~o.local THEN Log(F, "skip_missing", 0, d.name)
        ELSE IF ~o.valid THEN Log(F, "skip_invalid", 0, d.name)
        ELSE IF in_pool THEN F1
        ELSE SnapshotPools(BuildApp(F1, d, o), d.name, ord)

\* one iteration of the loop over the declared apps
LoadOne(F, d, reuse_existing_apps, old_context, o, ord) ==
    LET pool == F.e.application_pool
        in_pool == /\ reuse_existing_apps
                   /\ d.path \in DOMAIN pool
                   /\ old_context # NoCtx
                   /\ d.name \in DOMAIN pool[d.path]
        F1 == IF in_pool THEN ReuseApp(F, d, old_context, o) ELSE F
    IN  IF ~o.local THEN Log(F, "skip_missing", 0, d.name)
        ELSE IF ~o.valid THEN Log(F, "skip_invalid", 0, d.name)
        ELSE IF in_pool /\ o.reuse = "ok" THEN F1
        ELSE SnapshotPools(BuildApp(F1, d, o), d.name, ord)

RECURSIVE LoadLoop(_, _, _, _, _, _, _)
LoadLoop(F, decl, i, reuse_existing_apps, old_context, orc, ord) ==
    IF i > Len(decl) THEN F
    ELSE LoadLoop(LoadOne(F, decl[i], reuse_existing_apps, old_context,
                          orc[decl[i].name], ord),
                  decl, i + 1, reuse_existing_apps, old_context, orc, ord)

\* Engine.__register_reload_command
register_reload_command(F) ==
    IF \E n \in DOMAIN F.e.applications : is_dev(F.e.objs[F.e.applications[n]].path)
    THEN register_command(F, "Reload and Restart", Len(F.e.ents) + 1)
    ELSE F

\* the registry is not emptied at the beginning of the pass
load_apps_keeps_commands(F, reuse_existing_apps, old_context, orc, ord) ==
    LET F0 == Log([F EXCEPT !.e.applications = EmptyMap], "load_apps", 0, "")
    IN  Log(LoadLoop(register_reload_command(F0), get_apps(F0.e.env), 1,
                     reuse_existing_apps, old_context, orc, ord),
            "load_done", 0, "")

\* Engine.__load_apps(reuse_existing_apps, old_context)
load_apps(F, reuse_existing_apps, old_context, orc, ord) ==
    LET F0 == Log([F EXCEPT !.e.applications = EmptyMap, !.e.commands = EmptyMap],
                  "load_apps", 0, "")
    IN  Log(LoadLoop(register_reload_command(F0), get_apps(F0.e.env), 1,
                     reuse_existing_apps, old_context, orc, ord),
            "load_done", 0, "")

RECURSIVE PostEngineInits_stops_at_failure(_, _, _, _)
\* the first post_engine_init that raises ends the pass and unloads the app
PostEngineInits_stops_at_failure(F, keys, i, orc) ==
    IF i > Len(keys) THEN F
    ELSE LET F1 == Log(F, "post_engine_init", F.e.applications[keys[i]], keys[i])
         IN  IF orc[keys[i]].pei
             THEN [Log(F1, "post_engine_init_failed", F.e.applications[keys[i]], keys[i])
                      EXCEPT !.e.applications = Del(@, keys[i])]
             ELSE PostEngineInits_stops_at_failure(F1, keys, i + 1, orc)

RECURSIVE PostEngineInits(_, _, _, _)
PostEngineInits(F, keys, i, orc) ==
    IF i > Len(keys) THEN F
    ELSE LET F1 == Log(F, "post_engine_init", F.e.applications[keys[i]], keys[i])
         IN  PostEngineInits(IF orc[keys[i]].pei
                             THEN Log(F1, "post_engine_init_failed",
                                      F.e.applications[keys[i]], keys[i])
                             ELSE F1,
                             keys, i + 1, orc)

\* Engine.__run_post_engine_inits
run_post_engine_inits(F, orc, ord) ==
    PostEngineInits(F, KeysInOrder(F.e.applications, ord), 1, orc)

----------------------------------------------------------------------------
(* Engine.__init__ and _start_engine *)

\* the calls of a start that can raise out of it
StartFaults == { "none", "exists_local", "load_plugin", "core_pre_context_change",
                 "validate", "setup_frameworks", "pre_app_init", "post_app_init",
                 "engine_init_hook", "core_post_context_change" }

\* Engine.__create_invokers
create_invokers(F) ==
    [F EXCEPT !.e.invoker = has_ui(F.e.descriptor), !.e.async_invoker = has_ui(F.e.descriptor)]

\* the registrations that follow the load in Engine.__init__
register_engine_commands(F) ==
    LET F1 == IF has_018_logging_support(F.e.descriptor)
              THEN register_command(F, "Toggle Debug Logging", Len(F.e.ents) + 1)
              ELSE F
    IN  register_reload_command(register_command(F1, "Open Log Folder", Len(F1.e.ents) + 1))

\* the apps are loaded first; validation and framework setup come after
engine_init_loads_first(F0, engine_name, env, context, fault, orc, ord) ==
    LET F1 == [F0 EXCEPT !.e = [NewEngine(engine_name, env, context) EXCEPT !.log_handler = TRUE]]
        validate(F) == Call(F, "validate", fault, "TankError")
        frameworks(F) ==
            LET G == Call(F, "setup_frameworks", fault, "TankError")
            IN  IF G.err # "" THEN G
                ELSE [G EXCEPT !.e.frameworks = engine_frameworks(F.e.descriptor),
                               !.e.shared_frameworks =
                                   { fw.name : fw \in { x \in engine_frameworks(F.e.descriptor) :
                                                          x.is_shared } }]
        pre_app_init(F) == Call(create_invokers(F), "pre_app_init", fault, "Exception")
        load(F) == run_post_engine_inits(load_apps(F, FALSE, NoCtx, orc, ord), orc, ord)
        post_app_init(F) == Call(register_engine_commands(F), "post_app_init", fault, "Exception")
        init_hook(F) == Call(F, "engine_init_hook", fault, "Exception")
        metrics(F) == IF metrics_dispatch_allowed(F.e.descriptor)
                      THEN Log([F EXCEPT !.e.metrics_dispatcher = "started"],
                               "metrics_start", 0, "")
                      ELSE F
    IN  Then(Then(Then(Then(Then(Then(load(F1), validate), frameworks), pre_app_init),
                       post_app_init), init_hook), metrics)

\* Engine.__init__(tk, context, engine_instance_name, env)
engine_init(F0, engine_name, env, context, fault, orc, ord) ==
    LET F1 == [F0 EXCEPT !.e = [NewEngine(engine_name, env, context) EXCEPT !.log_handler = TRUE]]
        validate(F) == Call(F, "validate", fault, "TankError")
        frameworks(F) ==
            LET G == Call(F, "setup_frameworks", fault, "TankError")
            IN  IF G.err # "" THEN G
                ELSE [G EXCEPT !.e.frameworks = engine_frameworks(F.e.descriptor),
                               !.e.shared_frameworks =
                                   { fw.name : fw \in { x \in engine_frameworks(F.e.descriptor) :
                                                          x.is_shared } }]
        pre_app_init(F) == Call(create_invokers(F), "pre_app_init", fault, "Exception")
        load(F) == run_post_engine_inits(load_apps(F, FALSE, NoCtx, orc, ord), orc, ord)
        post_app_init(F) == Call(register_engine_commands(F), "post_app_init", fault, "Exception")
        init_hook(F) == Call(F, "engine_init_hook", fault, "Exception")
        metrics(F) == IF metrics_dispatch_allowed(F.e.descriptor)
                      THEN Log([F EXCEPT !.e.metrics_dispatcher = "started"],
                               "metrics_start", 0, "")
                      ELSE F
    IN  Then(Then(Then(Then(Then(Then(validate(F1), frameworks), pre_app_init), load),
                       post_app_init), init_hook), metrics)

\* _get_env_and_descriptor_for_engine(engine_name, tk, context): the environment
\* and the engine descriptor, or the TankEngineInitError it raises
get_env_and_descriptor_for_engine(engine_name, context) ==
    LET env_name == pick_environment(context)
    IN  IF env_name = "" \/ engine_name \notin get_engines(env_name)
        THEN [err |-> "TankEngineInitError", env |-> "", descriptor |-> ""]
        ELSE [err |-> "", env |-> env_name, descriptor |-> get_engine_descriptor(env_name)]

\* the check left out: a start goes ahead while an engine is running
check_not_running_absent(F) == F

\* "first ensure that an engine is not currently running"
check_not_running(F) == IF F.g_current_engine # 0 THEN Raise(F, "TankError") ELSE F

\* _start_engine(engine_name, tk, old_context, new_context); new_id is the
\* identity of the engine object the call constructs
start_engine(F0, new_id, engine_name, old_context, new_context, fault, orc, ord) ==
    LET lookup == get_env_and_descriptor_for_engine(engine_name, new_context)
        find(F) == IF lookup.err # "" THEN Raise(Log(F, "pick_environment", 0, ""), lookup.err)
                   ELSE Log(F, "pick_environment", 0, "")
        local(F) == Call(F, "exists_local", fault, "TankEngineInitError")
        plugin(F) == Call(F, "load_plugin", fault, "TankError")
        pre_hook(F) == Call(F, "core_pre_context_change", fault, "Exception")
        construct(F) == engine_init(Log(F, "construct_engine", 0, ""), engine_name,
                                    lookup.env, new_context, fault, orc, ord)
        set_current(F) == [F EXCEPT !.g_current_engine = new_id]
        post_hook(F) == Call(F, "core_post_context_change", fault, "Exception")
    IN  Then(Then(Then(Then(Then(Then(Then(check_not_running(F0), find), local), plugin), pre_hook),
                       construct), set_current), post_hook)

----------------------------------------------------------------------------
(* Engine.change_context *)

\* the calls of a context change that can raise out of it
ChangeFaults == { "none", "core_pre_context_change", "engine_pre_context_change",
                  "app_pre_context_change", "engine_post_context_change",
                  "core_post_context_change" }

\* the (install path, instance name) keys of the application pool, in iteration order
PoolKeys(E, ord) ==
    LET paths == SelectSeq(<< "pA", "pB" >>, LAMBDA p : p \in DOMAIN E.application_pool)
        keys_of(p) == LET ks == KeysInOrder(E.application_pool[p], ord)
                      IN  [i \in DOMAIN ks |-> [path |-> p, name |-> ks[i]]]
    IN  IF Len(paths) = 0 THEN << >>
        ELSE IF Len(paths) = 1 THEN keys_of(paths[1])
        ELSE keys_of(paths[1]) \o keys_of(paths[2])

RECURSIVE AppPreHooks(_, _, _, _)
\* the loop that calls pre_context_change on the pooled apps; bad is the app
\* object whose hook raises (0 = none)
AppPreHooks(F, keys, i, bad) ==
    IF i > Len(keys) \/ F.err # "" THEN F
    ELSE LET app == F.e.application_pool[keys[i].path][keys[i].name]
             F1 == Log(F, "app_pre_context_change", app, keys[i].name)
         IN  AppPreHooks(IF app = bad THEN Raise(F1, "Exception") ELSE F1, keys, i + 1, bad)

\* "Make sure we're allowed to change context at the engine level."
check_change_allowed(F) ==
    IF ~engine_context_change_allowed(F.e.descriptor)
    THEN Raise(F, "TankContextChangeNotSupportedError") ELSE F

\* the descriptor of the target context is not compared
check_same_descriptor_absent(F, engine_descriptor) == F

\* "Make sure that the engine in the target context is the same as the current engine."
check_same_descriptor(F, engine_descriptor) ==
    IF engine_descriptor # F.e.descriptor
    THEN Raise(F, "TankContextChangeNotSupportedError") ELSE F

\* the apps are loaded before the environment and the context are swapped
change_context_loads_before_swap(F0, new_context, fault, bad, orc, ord) ==
    LET lookup == get_env_and_descriptor_for_engine(F0.e.instance_name, new_context)
        old_context == F0.e.context
        find(F) == IF lookup.err # "" THEN Raise(Log(F, "pick_environment", 0, ""), lookup.err)
                   ELSE Log(F, "pick_environment", 0, "")
        same(F) == check_same_descriptor(F, lookup.descriptor)
        core_pre(F) == Call(F, "core_pre_context_change", fault, "Exception")
        eng_pre(F) == Call(F, "engine_pre_context_change", fault, "Exception")
        app_pre(F) == AppPreHooks(F, PoolKeys(F.e, ord), 1, bad)
        swap(F) == Log([F EXCEPT !.e.env = lookup.env, !.e.context = new_context],
                       "swap", 0, "")
        load(F) == load_apps(F, TRUE, old_context, orc, ord)
        eng_post(F) == Call(F, "engine_post_context_change", fault, "Exception")
        core_post(F) == Call(F, "core_post_context_change", fault, "Exception")
        post_inits(F) == run_post_engine_inits(F, orc, ord)
    IN  Then(Then(Then(Then(Then(Then(Then(Then(Then(Then(check_change_allowed(F0), find), same),
            core_pre), eng_pre), app_pre), load), swap), eng_post), core_post), post_inits)

\* Engine.change_context(new_context)
change_context(F0, new_context, fault, bad, orc, ord) ==
    LET lookup == get_env_and_descriptor_for_engine(F0.e.instance_name, new_context)
        old_context == F0.e.context
        find(F) == IF lookup.err # "" THEN Raise(Log(F, "pick_environment", 0, ""), lookup.err)
                   ELSE Log(F, "pick_environment", 0, "")
        same(F) == check_same_descriptor(F, lookup.descriptor)
        core_pre(F) == Call(F, "core_pre_context_change", fault, "Exception")
        eng_pre(F) == Call(F, "engine_pre_context_change", fault, "Exception")
        app_pre(F) == AppPreHooks(F, PoolKeys(F.e, ord), 1, bad)
        swap(F) == Log([F EXCEPT !.e.env = lookup.env, !.e.context = new_context],
                       "swap", 0, "")
        load(F) == load_apps(F, TRUE, old_context, orc, ord)
        eng_post(F) == Call(F, "engine_post_context_change", fault, "Exception")
        core_post(F) == Call(F, "core_post_context_change", fault, "Exception")
        post_inits(F) == run_post_engine_inits(F, orc, ord)
    IN  Then(Then(Then(Then(Then(Then(Then(Then(Then(Then(check_change_allowed(F0), find), same),
            core_pre), eng_pre), app_pre), swap), load), eng_post), core_post), post_inits)

----------------------------------------------------------------------------
(* Engine.destroy *)

DestroyFaults == { "none", "destroy_framework", "destroy_app", "destroy_engine" }

RECURSIVE DestroyFrameworks(_, _, _)
\* fw._destroy_framework() for each framework of a set of names; the call
\* raises when the input says so
DestroyFrameworks(F, names, fault) ==
    IF names = {} \/ F.err # "" THEN F
    ELSE LET n == CHOOSE x \in names : TRUE
             F1 == Log(F, "destroy_framework", 0, n)
         IN  DestroyFrameworks(IF fault = "destroy_framework" THEN Raise(F1, "Exception") ELSE F1,
                               names \ {n}, fault)

\* Engine.__destroy_frameworks
destroy_frameworks(F, fault) ==
    LET own == { fw.name : fw \in { x \in F.e.frameworks : ~x.is_shared } }
        F1 == DestroyFrameworks(F, own, fault)
        F2 == DestroyFrameworks(F1, F.e.shared_frameworks, fault)
    IN  IF F2.err # "" THEN F2 ELSE [F2 EXCEPT !.e.shared_frameworks = {}]

RECURSIVE DestroyApps_and_pooled(_, _, _, _)
\* after the active apps, an app that is only in the application pool is
\* torn down as well
DestroyApps_and_pooled(F, keys, i, bad) ==
    LET inactive == UNION { { F.e.application_pool[p][n] : n \in DOMAIN F.e.application_pool[p] } :
                              p \in DOMAIN F.e.application_pool }
                    \ { F.e.applications[n] : n \in DOMAIN F.e.applications }
    IN  IF F.err # "" THEN F
        ELSE IF i > Len(keys)
        THEN IF inactive = {} THEN F
             ELSE LET o == CHOOSE x \in inactive : TRUE
                  IN  Log(F, "destroy_app", o, F.e.objs[o].instance_name)
        ELSE LET F1 == Log(Log(F, "app_destroy_frameworks", F.e.applications[keys[i]], keys[i]),
                           "destroy_app", F.e.applications[keys[i]], keys[i])
             IN  DestroyApps_and_pooled(IF keys[i] = bad THEN Raise(F1, "Exception") ELSE F1,
                                        keys, i + 1, bad)

RECURSIVE DestroyApps(_, _, _, _)
\* Engine.__destroy_apps; bad is the instance name of the app whose
\* destroy_app raises ("" = none)
DestroyApps(F, keys, i, bad) ==
    IF i > Len(keys) \/ F.err # "" THEN F
    ELSE LET F1 == Log(Log(F, "app_destroy_frameworks", F.e.applications[keys[i]], keys[i]),
                       "destroy_app", F.e.applications[keys[i]], keys[i])
         IN  DestroyApps(IF keys[i] = bad THEN Raise(F1, "Exception") ELSE F1, keys, i + 1, bad)

\* the apps are torn down before the frameworks of the engine, and the log
\* handler is removed before the metrics dispatcher is stopped
destroy_apps_first(F0, fault, bad, ord) ==
    LET frameworks(F) == destroy_frameworks(F, fault)
        apps(F) == DestroyApps(F, KeysInOrder(F.e.applications, ord), 1, bad)
        engine(F) == Call(F, "destroy_engine", fault, "Exception")
        slot(F) == Log([F EXCEPT !.g_current_engine = 0], "set_current_engine", 0, "")
        rest(F) ==
            LET F1 == Log([F EXCEPT !.e.invoker = FALSE, !.e.async_invoker = FALSE],
                          "clear_hooks_cache", 0, "")
                F2 == Log([F1 EXCEPT !.e.log_handler = FALSE, !.e.destroyed = TRUE],
                          "remove_log_handler", 0, "")
            IN  IF F2.e.metrics_dispatcher = "started"
                THEN Log([F2 EXCEPT !.e.metrics_dispatcher = "stopped"], "metrics_stop", 0, "")
                ELSE F2
    IN  Then(Then(Then(Then(apps(F0), frameworks), engine), slot), rest)

\* Engine.destroy()
destroy(F0, fault, bad, ord) ==
    LET frameworks(F) == destroy_frameworks(F, fault)
        apps(F) == DestroyApps(F, KeysInOrder(F.e.applications, ord), 1, bad)
        engine(F) == Call(F, "destroy_engine", fault, "Exception")
        slot(F) == Log([F EXCEPT !.g_current_engine = 0], "set_current_engine", 0, "")
        rest(F) ==
            LET F1 == Log([F EXCEPT !.e.invoker = FALSE, !.e.async_invoker = FALSE],
                          "clear_hooks_cache", 0, "")
                F2 == IF F1.e.metrics_dispatcher = "started"
                      THEN Log([F1 EXCEPT !.e.metrics_dispatcher = "stopped"],
                               "metrics_stop", 0, "")
                      ELSE F1
            IN  Log([F2 EXCEPT !.e.log_handler = FALSE, !.e.destroyed = TRUE],
                    "remove_log_handler", 0, "")
    IN  Then(Then(Then(Then(frameworks(F0), apps), engine), slot), rest)

----------------------------------------------------------------------------
(* Engine.get_matching_commands *)

Selectors == [app_instance : InstNames, name : {"", "Foo", "a:Foo"}]

\* the grouping ignores the instance name of the owner
CommandsOfInstance_any_owner(E, inst) ==
    { k \in DOMAIN E.commands : E.ents[E.commands[k]].app # 0 }

\* the registry keys of the commands owned by an app whose instance name is inst
CommandsOfInstance(E, inst) ==
    { k \in DOMAIN E.commands :
        /\ E.ents[E.commands[k]].app # 0
        /\ E.objs[E.ents[E.commands[k]].app].instance_name = inst }

\* the name of the selector also matches the key "<instance>:<name>"
get_matching_commands_matches_prefixed(F, selector, found, has_engine_attr) ==
    LET hit(k) == \/ selector.name = ""
                  \/ selector.name = k
                  \/ PrefixedName(selector.app_instance, selector.name) = k
        keys == SelectSeq(found, hit)
        matching == [i \in DOMAIN keys |->
                        [app_instance |-> selector.app_instance, name |-> keys[i],
                         callback |-> F.e.ents[F.e.commands[keys[i]]].callback]]
        F1 == IF Len(keys) # 0 THEN F
              ELSE IF has_engine_attr THEN Log(F, "log_warning", 0, selector.app_instance)
              ELSE Raise(F, "AttributeError")
    IN  [ F |-> F1, ret |-> IF F1.err = "" THEN matching ELSE << >> ]

\* Engine.get_matching_commands(command_selectors) for one selector; found is
\* commands_by_instance[instance_name] in the order the registry was iterated.
\* The warning of a selector without a match goes through self._engine, an
\* attribute that Engine does not set: has_engine_attr says whether the base
\* class provides it; without it the call raises AttributeError.
get_matching_commands(F, selector, found, has_engine_attr) ==
    LET hit(k) == selector.name = "" \/ selector.name = k
        keys == SelectSeq(found, hit)
        matching == [i \in DOMAIN keys |->
                        [app_instance |-> selector.app_instance, name |-> keys[i],
                         callback |-> F.e.ents[F.e.commands[keys[i]]].callback]]
        F1 == IF Len(keys) # 0 THEN F
              ELSE IF has_engine_attr THEN Log(F, "log_warning", 0, selector.app_instance)
              ELSE Raise(F, "AttributeError")
    IN  [ F |-> F1, ret |-> IF F1.err = "" THEN matching ELSE << >> ]

----------------------------------------------------------------------------
(* The host: one call at a time *)

\* no registration made yet in the current load pass
NoReg == [calls |-> << >>, inited |-> {}]

\* no thread has called into the engine
NoInv == [phase |-> "", qapp |-> FALSE, lock |-> "", fn |-> "None", res |-> "None",
          queue |-> << >>, th |-> << >>, calls |-> 0]

IdleCall == [ op |-> "idle", eng |-> 0, ctx |-> NoCtx, fault |-> "none", err |-> "",
              log |-> << >>, orc |-> EmptyMap,
              selector |-> [app_instance |-> "", name |-> ""],
              before |-> NullEngine, slot_before |-> 0, ret |-> << >> ]

\* the inputs of a call in which no code outside the module misbehaves
NoFault(env) == [fault |-> "none", bad |-> 0, orc |-> AllOk(env)]

\* the misbehaviours in the inputs of a call
InputCost(inp) == (IF inp.fault = "none" THEN 0 ELSE 1) + Cost(inp.orc)

\* the inputs of a start: one call raises out of it, or apps misbehave in the
\* load (no app is reused in a start)
StartInputs(env, budget) ==
    {NoFault(env)} \cup
    IF budget < 1 THEN {}
    ELSE { [NoFault(env) EXCEPT !.fault = f] : f \in StartFaults \ {"none"} } \cup
         { [NoFault(env) EXCEPT !.orc = orc] :
             orc \in { x \in LoadInputs(env, budget) : \A n \in DOMAIN x : x[n].reuse = "ok" } }

\* the inputs of a context change; the app whose pre_context_change raises is
\* one of the pooled apps
ChangeInputs(E, env, budget) ==
    {NoFault(env)} \cup
    IF budget < 1 THEN {}
    ELSE { [NoFault(env) EXCEPT !.fault = f] :
             f \in ChangeFaults \ {"none", "app_pre_context_change"} } \cup
         { [NoFault(env) EXCEPT !.fault = "app_pre_context_change", !.bad = app] :
             app \in UNION { { E.application_pool[p][n] : n \in DOMAIN E.application_pool[p] } :
                               p \in DOMAIN E.application_pool } } \cup
         { [NoFault(env) EXCEPT !.orc = orc] : orc \in LoadInputs(env, budget) }

\* the inputs of a teardown; the app whose destroy_app raises is an active app
DestroyInputs(E, budget) ==
    {[fault |-> "none", bad |-> ""]} \cup
    IF budget < 1 THEN {}
    ELSE { [fault |-> f, bad |-> ""] : f \in DestroyFaults \ {"none", "destroy_app"} } \cup
         { [fault |-> "destroy_app", bad |-> n] : n \in DOMAIN E.applications }

Init ==
    /\ g_current_engine = 0
    /\ engines = << >>
    /\ dict_order \in Orderings(InstNames)
    /\ last = IdleCall
    /\ faults = 0
    /\ reg = NoReg
    /\ inv = NoInv

\* the host calls start_engine(engine_name, tk, context)
StartEngine ==
    /\ last.op = "idle"
    /\ \E ctx \in Contexts :
       \E inp \in StartInputs(pick_environment(ctx), MaxFaults - faults) :
        LET new_id == Len(engines) + 1
            F == start_engine(Frame(NullEngine, g_current_engine), new_id, EngineName,
                              NoCtx, ctx, inp.fault, inp.orc, dict_order)
            kept == F.g_current_engine = new_id
        IN  /\ faults' = faults + InputCost(inp)
            /\ kept => new_id <= MaxEngines
            /\ Len(F.e.objs) <= MaxObjs
            /\ g_current_engine' = F.g_current_engine
            /\ engines' = IF kept THEN Append(engines, F.e) ELSE engines
            /\ last' = [IdleCall EXCEPT !.op = "start_engine", !.ctx = ctx, !.err = F.err,
                                         !.fault = inp.fault, !.orc = inp.orc,
                                         !.before = IF g_current_engine = 0 THEN NullEngine
                                                    ELSE engines[g_current_engine],
                                         !.log = F.log, !.slot_before = g_current_engine,
                                         !.eng = IF F.err = "" THEN new_id ELSE 0]
            /\ UNCHANGED <<dict_order, reg, inv>>

\* what is left of an engine object once the host has let go of it
Tombstone == [NullEngine EXCEPT !.destroyed = TRUE]

\* the host takes the result of the call and goes on; it keeps no reference to
\* an engine it has destroyed
Return ==
    /\ last.op # "idle"
    /\ last' = IdleCall
    /\ engines' = [e \in DOMAIN engines |->
                      IF engines[e].destroyed THEN Tombstone ELSE engines[e]]
    /\ UNCHANGED <<g_current_engine, dict_order, faults, reg, inv>>

\* an engine the host can call: constructed and not torn down
Live == { e \in DOMAIN engines : ~engines[e].destroyed }

\* the host calls engine.change_context(new_context)
ChangeContext ==
    /\ last.op = "idle"
    /\ \E e \in Live, ctx \in Contexts :
       \E inp \in ChangeInputs(engines[e], pick_environment(ctx), MaxFaults - faults) :
        LET F == change_context(Frame(engines[e], g_current_engine), ctx, inp.fault, inp.bad,
                                inp.orc, dict_order)
        IN  /\ faults' = faults + InputCost(inp)
            /\ Len(F.e.objs) <= MaxObjs
            /\ g_current_engine' = F.g_current_engine
            /\ engines' = [engines EXCEPT ![e] = F.e]
            /\ last' = [IdleCall EXCEPT !.op = "change_context", !.eng = e, !.ctx = ctx,
                                         !.fault = inp.fault, !.orc = inp.orc,
                                         !.err = F.err, !.log = F.log,
                                         !.before = engines[e],
                                         !.slot_before = g_current_engine]
            /\ UNCHANGED <<dict_order, reg, inv>>

\* the host calls engine.destroy()
Destroy ==
    /\ last.op = "idle"
    /\ \E e \in Live :
       \E inp \in DestroyInputs(engines[e], MaxFaults - faults) :
        LET F == destroy(Frame(engines[e], g_current_engine), inp.fault, inp.bad, dict_order)
        IN  /\ faults' = IF inp.fault = "none" THEN faults ELSE faults + 1
            /\ g_current_engine' = F.g_current_engine
            /\ engines' = [engines EXCEPT ![e] = F.e]
            /\ last' = [IdleCall EXCEPT !.op = "destroy", !.eng = e, !.err = F.err,
                                         !.fault = inp.fault,
                                         !.log = F.log, !.before = engines[e],
                                         !.slot_before = g_current_engine]
            /\ UNCHANGED <<dict_order, reg, inv>>

\* the host calls engine.get_matching_commands([selector])
GetMatchingCommands ==
    /\ last.op = "idle"
    /\ \E e \in Live, selector \in Selectors :
       \E found \in Orderings(CommandsOfInstance(engines[e], selector.app_instance)),
          has_engine_attr \in BOOLEAN :
        LET R == get_matching_commands(Frame(engines[e], g_current_engine), selector, found,
                                       has_engine_attr)
        IN  /\ last' = [IdleCall EXCEPT !.op = "get_matching_commands", !.eng = e,
                                         !.err = R.F.err, !.log = R.F.log,
                                         !.before = engines[e],
                                         !.slot_before = g_current_engine,
                                         !.ret = R.ret, !.selector = selector]
            /\ UNCHANGED <<g_current_engine, engines, dict_order, faults, reg, inv>>

Next == StartEngine \/ ChangeContext \/ Destroy \/ GetMatchingCommands \/ Return

Spec == Init /\ [][Next]_vars

----------------------------------------------------------------------------
(* The registry, one call at a time: the apps of a load pass are constructed *)
(* one after the other, and an init_app registers any commands it likes      *)

RegNames == {"a", "b", "c"}
CmdNames == {"Foo", "Bar"}

\* an engine at the beginning of its first load pass
InitReg ==
    /\ g_current_engine = 0
    /\ engines = << NewEngine(EngineName, "env1", "c1") >>
    /\ dict_order = << "a", "b" >>
    /\ last = IdleCall
    /\ faults = 0
    /\ reg = NoReg
    /\ inv = NoInv

\* the load pass constructs the next app and enters its init_app
RegBeginInit ==
    \E n \in RegNames \ reg.inited :
        LET E == engines[1]
            obj == [path |-> "pA", instance_name |-> n, context |-> E.context,
                    settings |-> E.env]
        IN  /\ E.currently_initializing_app = 0
            /\ Len(E.objs) < MaxRegs
            /\ engines' = [engines EXCEPT ![1].objs = Append(@, obj),
                                           ![1].currently_initializing_app = Len(E.objs) + 1]
            /\ reg' = [reg EXCEPT !.inited = @ \cup {n}]
            /\ UNCHANGED <<g_current_engine, dict_order, last, faults, inv>>

\* register_command(name, callback), called by the init_app that is running
\* or, outside of any init_app, by the engine
RegCommand ==
    \E name \in CmdNames :
        LET E == engines[1]
            app == E.currently_initializing_app
            callback == Len(E.ents) + 1
            F == register_command(Frame(E, g_current_engine), name, callback)
        IN  /\ Len(E.ents) < MaxRegs
            /\ engines' = [engines EXCEPT ![1] = F.e]
            /\ reg' = [reg EXCEPT !.calls = Append(@,
                           [owner |-> app, name |-> name, callback |-> callback,
                            inst |-> IF app = 0 THEN "" ELSE E.objs[app].instance_name])]
            /\ UNCHANGED <<g_current_engine, dict_order, last, faults, inv>>

\* init_app returns or raises: the finally clause resets the marker
RegEndInit ==
    /\ engines[1].currently_initializing_app # 0
    /\ engines' = [engines EXCEPT ![1].currently_initializing_app = 0]
    /\ UNCHANGED <<g_current_engine, dict_order, last, faults, reg, inv>>

\* the next load pass also forgets the names that collided
RegReset_forgets_collisions ==
    /\ engines[1].currently_initializing_app = 0
    /\ reg # NoReg
    /\ engines' = [engines EXCEPT ![1].commands = EmptyMap, ![1].applications = EmptyMap,
                                   ![1].objs = << >>, ![1].ents = << >>,
                                   ![1].commands_that_need_prefixing = {}]
    /\ reg' = NoReg
    /\ UNCHANGED <<g_current_engine, dict_order, last, faults, inv>>

\* the next load pass begins: the registry is emptied (nothing refers to the
\* apps and entries of the previous pass any more); the names that once
\* collided stay remembered
RegReset ==
    /\ engines[1].currently_initializing_app = 0
    /\ reg # NoReg
    /\ engines' = [engines EXCEPT ![1].commands = EmptyMap, ![1].applications = EmptyMap,
                                   ![1].objs = << >>, ![1].ents = << >>]
    /\ reg' = NoReg
    /\ UNCHANGED <<g_current_engine, dict_order, last, faults, inv>>

NextReg == RegBeginInit \/ RegCommand \/ RegEndInit \/ RegReset

SpecReg == InitReg /\ [][NextReg]_vars

\* the registrations of a name made since the registry was emptied
CallsOf(name) == SelectSeq(reg.calls, LAMBDA r : r.name = name)

\* C5: when a name is registered by two or more different apps, one after the
\* other, starting from a registry without that name, the registry holds one
\* entry per registrant, under "<instance>:<name>" and with the registrant's
\* callback, and none under the bare name: two after "A" and "B", three after
\* "C".
C5_CollidingNamesPrefixed ==
    \A name \in CmdNames :
        LET rs == CallsOf(name)
            E == engines[1]
        IN  ( /\ Len(rs) >= 2
              /\ \A i \in DOMAIN rs : rs[i].owner # 0
              /\ \A i, j \in DOMAIN rs : i # j => rs[i].owner # rs[j].owner )
            => /\ name \notin DOMAIN E.commands
               /\ \A i \in DOMAIN rs :
                     /\ (rs[i].inst \o ":" \o name) \in DOMAIN E.commands
                     /\ E.ents[E.commands[rs[i].inst \o ":" \o name]].callback = rs[i].callback
               /\ Cardinality({ k \in DOMAIN E.commands :
                                  \E i \in DOMAIN rs :
                                     E.ents[E.commands[k]].callback = rs[i].callback })
                      = Len(rs)

C5_Witness ==
    /\ Len(CallsOf("Foo")) = 3
    /\ { CallsOf("Foo")[i].inst : i \in 1..3 } = {"a", "b", "c"}
    /\ DOMAIN engines[1].commands = {"a:Foo", "b:Foo", "c:Foo"}

----------------------------------------------------------------------------
(* Properties of start and of the component load *)

Kinds(log) == { log[i].k : i \in DOMAIN log }

HasEv(log, k, n) == \E i \in DOMAIN log : log[i].k = k /\ log[i].n = n

Declared(env) == { get_apps(env)[i].name : i \in DOMAIN get_apps(env) }

\* the last call ran a component load pass on an engine that is still there
LoadPassed ==
    /\ last.op \in {"start_engine", "change_context"}
    /\ last.eng # 0
    /\ "load_done" \in Kinds(last.log)

C3_InvalidSkippedOthersLoaded ==
    LoadPassed =>
        LET E == engines[last.eng]
        IN  \A n \in Declared(E.env) :
                /\ (~last.orc[n].valid) => n \notin DOMAIN E.applications
                /\ (last.orc[n].local /\ last.orc[n].valid /\ last.orc[n].build = "ok")
                       => n \in DOMAIN E.applications

C3_Witness ==
    /\ LoadPassed
    /\ \E n, m \in Declared(engines[last.eng].env) :
          /\ ~last.orc[n].valid
          /\ n \notin DOMAIN engines[last.eng].applications
          /\ m \in DOMAIN engines[last.eng].applications

\* C4: in a load pass, an app whose construction or init_app raises is absent
\* from the active map, and every app declared after it is still processed,
\* after it, before the pass ends.
C4_FailedBuildSkippedLoadContinues ==
    LoadPassed =>
        LET E == engines[last.eng]
            decl == get_apps(E.env)
        IN  \A p \in DOMAIN last.log :
              last.log[p].k \in {"build_failed", "init_failed"} =>
                /\ last.log[p].n \notin DOMAIN E.applications
                /\ \A i, j \in DOMAIN decl :
                      (decl[i].name = last.log[p].n /\ i < j) =>
                          \E q \in DOMAIN last.log : q > p /\ last.log[q].n = decl[j].name
                /\ \E q \in DOMAIN last.log : q > p /\ last.log[q].k = "load_done"

C4_Witness ==
    /\ LoadPassed
    /\ HasEv(last.log, "init_failed", "a")
    /\ "a" \notin DOMAIN engines[last.eng].applications
    /\ "b" \in DOMAIN engines[last.eng].applications

----------------------------------------------------------------------------
(* Properties of command lookup and of the context change *)

\* C6: get_matching_commands with the one selector (app_instance = A,
\* name = ""), when it returns, returns exactly one tuple (A, key, callback)
\* for every registry entry whose owning app has instance name A, prefixed keys
\* included, and no tuple for an entry owned by another app or by none.
C6_EmptyNameSelectsAllOfInstance ==
    (last.op = "get_matching_commands" /\ last.selector.name = "" /\ last.err = "") =>
        LET E == engines[last.eng]
            A == last.selector.app_instance
            owned == { k \in DOMAIN E.commands :
                         /\ E.ents[E.commands[k]].app # 0
                         /\ E.objs[E.ents[E.commands[k]].app].instance_name = A }
        IN  /\ { last.ret[i].name : i \in DOMAIN last.ret } = owned
            /\ Len(last.ret) = Cardinality(owned)
            /\ \A i \in DOMAIN last.ret :
                  /\ last.ret[i].app_instance = A
                  /\ last.ret[i].callback = E.ents[E.commands[last.ret[i].name]].callback

C6_Witness ==
    /\ last.op = "get_matching_commands"
    /\ last.selector = [app_instance |-> "a", name |-> ""]
    /\ \E i \in DOMAIN last.ret : last.ret[i].name = "a:Foo"
    /\ LET E == engines[last.eng]
       IN  /\ \E k \in DOMAIN E.commands : E.ents[E.commands[k]].app = 0
           /\ \E k \in DOMAIN E.commands :
                 /\ E.ents[E.commands[k]].app # 0
                 /\ E.objs[E.ents[E.commands[k]].app].instance_name = "b"

\* the last call was a context change to another context that returned
\* normally and in which no code outside the engine raised
CleanChange ==
    /\ last.op = "change_context"
    /\ last.err = ""
    /\ last.ctx # last.before.context
    /\ last.fault = "none"
    /\ last.orc = AllOk(engines[last.eng].env)

\* the path under which env declares the app instance n ("" when it does not)
PathIn(env, n) ==
    LET decl == get_apps(env)
    IN  IF \E i \in DOMAIN decl : decl[i].name = n
        THEN decl[CHOOSE i \in DOMAIN decl : decl[i].name = n].path
        ELSE ""

\* C7: after a successful context change within the same engine descriptor,
\* every app that supports context changes, is declared in the old and in the
\* new environment under the same path and instance name and was active
\* before, is the same object in the active map as before, and init_app was
\* not run for it.
C7_ReusePreservesIdentity ==
    CleanChange =>
        LET E == engines[last.eng]
            B == last.before
        IN  \A n \in DOMAIN B.applications :
              ( /\ PathIn(B.env, n) # ""
                /\ PathIn(B.env, n) = PathIn(E.env, n)
                /\ app_context_change_allowed(PathIn(E.env, n)) )
              => /\ n \in DOMAIN E.applications
                 /\ E.applications[n] = B.applications[n]
                 /\ ~HasEv(last.log, "init_app", n)

\* the registry keys under which the commands of the app object obj appear
KeysOwnedBy(E, obj) == { k \in DOMAIN E.commands : E.ents[E.commands[k]].app = obj }

\* C8: after a context change that reuses an app in place, the set of registry
\* keys under which that app's commands appear equals the set of keys they
\* had immediately before the change (stated for the changes in which no app
\* is constructed, so that every command in the registry is a re-attached one).
C8_ReuseKeepsCommandKeys ==
    (CleanChange /\ "init_app" \notin Kinds(last.log)) =>
        LET E == engines[last.eng]
            B == last.before
        IN  \A n \in DOMAIN E.applications :
              (HasEv(last.log, "reuse", n) /\ ~HasEv(last.log, "reuse_failed", n))
              => KeysOwnedBy(E, E.applications[n]) = KeysOwnedBy(B, E.applications[n])

\* the target context of the last call resolves to an engine descriptor other
\* than the one of the engine
OtherDescriptor ==
    LET lookup == get_env_and_descriptor_for_engine(last.before.instance_name, last.ctx)
    IN  lookup.err = "" /\ lookup.descriptor # last.before.descriptor

\* C9: change_context on an engine that does not allow context changes, or to
\* a context that resolves to another engine descriptor, fails with
\* TankContextChangeNotSupportedError; no pre or post hook of the core, the
\* engine or an app has run and the engine is as it was before the call.
C9_UnsupportedChangeRejected ==
    ( /\ last.op = "change_context"
      /\ (~engine_context_change_allowed(last.before.descriptor) \/ OtherDescriptor) )
    => /\ last.err = "TankContextChangeNotSupportedError"
       /\ Kinds(last.log) \subseteq {"pick_environment"}
       /\ engines[last.eng] = last.before
       /\ g_current_engine = last.slot_before

C9_Witness ==
    /\ last.op = "change_context"
    /\ engine_context_change_allowed(last.before.descriptor)
    /\ OtherDescriptor
    /\ last.before.applications # EmptyMap
    /\ last.err = "TankContextChangeNotSupportedError"
    /\ engines[last.eng] = last.before

\* C10: if change_context raises, at whatever point, the engine's context,
\* environment, active map and command registry are equal to their values
\* before the call.
C10_FailedChangeRolledBack ==
    (last.op = "change_context" /\ last.err # "") =>
        LET E == engines[last.eng]
            B == last.before
        IN  /\ E.context = B.context
            /\ E.env = B.env
            /\ E.applications = B.applications
            /\ E.commands = B.commands

----------------------------------------------------------------------------
(* The invokers: threads that call execute_in_main_thread and                *)
(* async_execute_in_main_thread, one step of a thread at a time              *)

MaxCalls == 3          \* calls of the two methods in one behaviour

Main == "main"
Workers == {"t1", "t2"}
Threads == {Main} \cup Workers

\* the functions handed in: f and g return, bad raises
Funcs == {"f", "g", "bad"}
Raises(fn) == fn = "bad"
Val(fn) == "r_" \o fn
None == "None"

\* a thread that is not inside a call of the two methods
IdleThread == [pc |-> "idle", kind |-> "", fn |-> None, ret |-> None, raised |-> FALSE,
               mode |-> "", ran |-> FALSE, on |-> "", had_invoker |-> FALSE]

\* "invoker = self._invoker if invoker_id == self._SYNC_INVOKER else self._async_invoker"
invoker_of(E, kind) == IF kind = "sync" THEN E.invoker ELSE E.async_invoker

\* the thread test is missing: the main thread hands off to itself
hands_off_also_on_main(E, kind, qapp, t) == invoker_of(E, kind) /\ qapp

\* the invoker test is missing
hands_off_without_invoker(E, kind, qapp, t) == qapp /\ t # Main

\* the test of _execute_in_main_thread: an invoker exists, a QApplication
\* exists and the calling thread is not the QApplication's thread
hands_off(E, kind, qapp, t) == invoker_of(E, kind) /\ qapp /\ t # Main

\* the lock is not taken into account
lock_free_ignored(I) == TRUE

\* self._lock.acquire() can return
lock_free(I) == I.lock = ""

\* Invoker._do_invoke on the main thread: self._res = self._fn(); an error
\* raised by the function leaves the slot as it is and ends in the Qt slot
do_invoke(I) == IF Raises(I.fn) THEN I.res ELSE Val(I.fn)

\* func(*args, **kwargs) on the calling thread; async_execute_in_main_thread
\* drops the value
run_direct(rec, t, kind, fn) ==
    [rec EXCEPT !.pc = "done", !.mode = "direct", !.ran = TRUE, !.on = t,
                !.raised = Raises(fn),
                !.ret = IF Raises(fn) \/ kind = "async" THEN None ELSE Val(fn)]

\* an engine object whose constructor has not yet reached __create_invokers,
\* with or without a UI and with or without a QApplication
InitInv ==
    /\ g_current_engine = 0
    /\ \E ctx \in {"c1", "c3"} :
          engines = << NewEngine(EngineName, pick_environment(ctx), ctx) >>
    /\ dict_order = << "a", "b" >>
    /\ last = IdleCall
    /\ faults = 0
    /\ reg = NoReg
    /\ \E qapp \in BOOLEAN :
          inv = [NoInv EXCEPT !.phase = "new", !.qapp = qapp,
                              !.th = [t \in Threads |-> IdleThread]]

\* Engine.__init__ reaches "self._invoker, self._async_invoker = self.__create_invokers()"
InvCreate ==
    /\ inv.phase = "new"
    /\ engines' = [engines EXCEPT ![1] = create_invokers(Frame(engines[1], 0)).e]
    /\ inv' = [inv EXCEPT !.phase = "running"]
    /\ UNCHANGED <<g_current_engine, dict_order, last, faults, reg>>

\* Engine.destroy reaches "self._invoker = None; self._async_invoker = None"
InvDestroy ==
    /\ inv.phase = "running"
    /\ engines' = [engines EXCEPT ![1].invoker = FALSE, ![1].async_invoker = FALSE]
    /\ inv' = [inv EXCEPT !.phase = "destroyed"]
    /\ UNCHANGED <<g_current_engine, dict_order, last, faults, reg>>

\* thread t calls execute_in_main_thread(fn) or async_execute_in_main_thread(fn)
InvCall ==
    \E t \in Threads, fn \in Funcs, kind \in {"sync", "async"} :
        LET E == engines[1]
            rec == [IdleThread EXCEPT !.kind = kind, !.fn = fn,
                                      !.had_invoker = invoker_of(E, kind)]
        IN  /\ inv.th[t].pc = "idle"
            /\ inv.calls < MaxCalls
            /\ inv' = IF ~hands_off(E, kind, inv.qapp, t)
                      THEN [inv EXCEPT !.calls = @ + 1, !.th[t] = run_direct(rec, t, kind, fn)]
                      ELSE IF kind = "sync"
                      THEN [inv EXCEPT !.calls = @ + 1,
                                       !.th[t] = [rec EXCEPT !.pc = "acquire", !.mode = "handoff"]]
                      ELSE [inv EXCEPT !.calls = @ + 1,
                                       !.queue = Append(@, [kind |-> "async", fn |-> fn, caller |-> t]),
                                       !.th[t] = [rec EXCEPT !.pc = "done", !.mode = "handoff"]]
            /\ UNCHANGED <<g_current_engine, engines, dict_order, last, faults, reg>>

\* Invoker.invoke: self._lock.acquire()
InvAcquire ==
    \E t \in Threads :
        /\ inv.th[t].pc = "acquire"
        /\ lock_free(inv)
        /\ inv' = [inv EXCEPT !.lock = t, !.th[t].pc = "locked"]
        /\ UNCHANGED <<g_current_engine, engines, dict_order, last, faults, reg>>

\* Invoker.invoke: the slots are written and invokeMethod queues _do_invoke
\* for the main thread with a blocking connection
InvHandOff ==
    \E t \in Threads :
        /\ inv.th[t].pc = "locked"
        /\ inv' = [inv EXCEPT !.fn = inv.th[t].fn, !.res = None,
                              !.queue = Append(@, [kind |-> "sync", fn |-> None, caller |-> t]),
                              !.th[t].pc = "blocked"]
        /\ UNCHANGED <<g_current_engine, engines, dict_order, last, faults, reg>>

\* the event loop of the main thread delivers the next queued call
InvService ==
    /\ inv.queue # << >>
    /\ inv.th[Main].pc \in {"idle", "done"}
    /\ LET req == Head(inv.queue)
       IN  inv' = IF req.kind = "sync"
                  THEN [inv EXCEPT !.queue = Tail(@), !.res = do_invoke(inv),
                                   !.th[req.caller].pc = "read",
                                   !.th[req.caller].ran = TRUE,
                                   !.th[req.caller].on = Main]
                  ELSE [inv EXCEPT !.queue = Tail(@)]
    /\ UNCHANGED <<g_current_engine, engines, dict_order, last, faults, reg>>

\* the lock is kept when invoke returns
InvRelease_keeps_lock ==
    \E t \in Threads :
        /\ inv.th[t].pc = "read"
        /\ inv' = [inv EXCEPT !.th[t].ret = inv.res, !.th[t].pc = "done"]
        /\ UNCHANGED <<g_current_engine, engines, dict_order, last, faults, reg>>

\* Invoker.invoke: "return self._res", and the finally clause releases the lock
InvRelease ==
    \E t \in Threads :
        /\ inv.th[t].pc = "read"
        /\ inv' = [inv EXCEPT !.lock = "", !.th[t].ret = inv.res, !.th[t].pc = "done"]
        /\ UNCHANGED <<g_current_engine, engines, dict_order, last, faults, reg>>

\* the call has returned or raised and the thread goes on
InvReturn ==
    \E t \in Threads :
        /\ inv.th[t].pc = "done"
        /\ inv' = [inv EXCEPT !.th[t] = IdleThread]
        /\ UNCHANGED <<g_current_engine, engines, dict_order, last, faults, reg>>

NextInv == InvCreate \/ InvDestroy \/ InvCall \/ InvAcquire \/ InvHandOff \/ InvService
           \/ InvRelease \/ InvReturn

SpecInv == InitInv /\ [][NextInv]_vars

\* the threads of the invoker harness (none in the other specifications)
Running == DOMAIN inv.th

\* the threads that hold the Invoker's lock for a hand-off in flight
InFlight == { t \in Running : inv.th[t].pc \in {"locked", "blocked", "read"} }

\* C11: execute_in_main_thread called on the main thread runs the function in
\* place on that thread and returns its result (or raises its error); the main
\* thread never holds the Invoker's lock and never queues a hand-off.
C11_MainThreadRunsInPlace ==
    /\ inv.lock # Main
    /\ \A i \in DOMAIN inv.queue : inv.queue[i].caller # Main
    /\ (Main \in Running /\ inv.th[Main].pc # "idle" /\ inv.th[Main].kind = "sync") =>
          LET r == inv.th[Main]
          IN  /\ r.pc = "done" /\ r.mode = "direct" /\ r.on = Main /\ r.ran
              /\ r.raised = Raises(r.fn)
              /\ (~Raises(r.fn)) => r.ret = Val(r.fn)

C11_Witness ==
    /\ Main \in Running
    /\ inv.th[Main].pc = "done" /\ inv.th[Main].kind = "sync"
    /\ inv.th[Main].had_invoker /\ inv.qapp
    /\ inv.th[Main].ret = Val("f")
    /\ inv.lock = "t1"

\* C12: a call of either method made while the engine has no invoker (no UI,
\* invokers not yet created, or cleared by destroy) runs the function on the
\* calling thread, and the function has completed when the call returns.
C12_NoInvokerRunsDirectly ==
    \A t \in Running :
        (inv.th[t].pc # "idle" /\ ~inv.th[t].had_invoker) =>
            /\ inv.th[t].pc = "done" /\ inv.th[t].mode = "direct"
            /\ inv.th[t].ran /\ inv.th[t].on = t

C12_Witness ==
    /\ inv.phase = "destroyed" /\ inv.qapp
    /\ "t1" \in Running
    /\ inv.th["t1"].pc = "done" /\ inv.th["t1"].kind = "async"
    /\ ~inv.th["t1"].had_invoker
    /\ inv.th["t1"].on = "t1"

\* C13: at most one synchronous hand-off is in flight at a time (one thread
\* between lock acquire and release, one queued request), and a caller never
\* receives the result of another caller's function: a function that returns
\* gives its caller its own result.
C13_HandOffsDoNotInterleave ==
    /\ Cardinality(InFlight) <= 1
    /\ Cardinality({ i \in DOMAIN inv.queue : inv.queue[i].kind = "sync" }) <= 1
    /\ \A t \in Running :
          (inv.th[t].pc = "done" /\ inv.th[t].kind = "sync" /\ inv.th[t].mode = "handoff") =>
              /\ inv.th[t].ret \in {Val(inv.th[t].fn), None}
              /\ (~Raises(inv.th[t].fn)) => inv.th[t].ret = Val(inv.th[t].fn)

C13_Witness ==
    /\ "t1" \in Running
    /\ inv.th["t1"].pc = "read" /\ inv.th["t1"].fn = "f" /\ inv.res = Val("f")
    /\ inv.th["t2"].pc = "acquire" /\ inv.th["t2"].fn = "g"

\* C14: when a function handed off by a synchronous call from a non-main
\* thread raises on the main thread, the caller's call raises that error.
C14_HandOffErrorPropagates ==
    \A t \in Running :
        ( /\ inv.th[t].pc = "done" /\ inv.th[t].kind = "sync"
          /\ inv.th[t].mode = "handoff" /\ Raises(inv.th[t].fn) )
        => inv.th[t].raised

\* C15: async_execute_in_main_thread, called on any thread while an async
\* invoker exists, returns without a result and before the function has run.
C15_AsyncReturnsWithoutWaiting ==
    \A t \in Running :
        (inv.th[t].pc = "done" /\ inv.th[t].kind = "async" /\ inv.th[t].had_invoker /\ inv.qapp) =>
            /\ ~inv.th[t].ran
            /\ inv.th[t].ret = None

----------------------------------------------------------------------------
(* Panel registration harness: register_panel called in and out of init_app *)

PanelNames == {"main", "Side-Bar"}
PanelCallbacks == {"w1", "w2"}

\* re.sub("\W", "_", s).lower() on the panel names of the fixture (the instance
\* names of the fixture are lower-case word characters, which it leaves alone)
sanitize(s) == CASE s = "Side-Bar" -> "side_bar" [] OTHER -> s

\* "%s_%s" % (current_app.instance_name, panel_name), sanitized
panel_id(instance_name, panel_name) == instance_name \o "_" \o sanitize(panel_name)

\* the marker is not looked at: outside of init_app the panel is stored for
\* no app
register_panel_without_check(F, callback, panel_name) ==
    LET E == F.e
        current_app == E.currently_initializing_app
        inst == IF current_app = 0 THEN "" ELSE E.objs[current_app].instance_name
        id == panel_id(inst, panel_name)
    IN  Log([F EXCEPT !.e.panels = Put(E.panels, id, [callback |-> callback, app |-> inst])],
            "registered_panel", current_app, id)

\* Engine.register_panel(callback, panel_name); the app of the properties is
\* held by its instance name
register_panel(F, callback, panel_name) ==
    LET E == F.e
        current_app == E.currently_initializing_app
    IN  IF current_app = 0
        THEN Raise(F, "TankError")
        ELSE LET inst == E.objs[current_app].instance_name
                 id == panel_id(inst, panel_name)
             IN  Log([F EXCEPT !.e.panels = Put(E.panels, id,
                                                 [callback |-> callback, app |-> inst])],
                     "registered_panel", current_app, id)

\* no register_panel call made yet
NoPanelCall == [called |-> FALSE, phase |-> "", err |-> "", id |-> "", inst |-> "",
                callback |-> "", before |-> EmptyMap]

\* the engine before its first load pass: no app constructed, no panel call
NoPan == [phase |-> "before_load", inited |-> {}, n |-> 0, panel |-> NoPanelCall]

InitPan ==
    /\ g_current_engine = 0
    /\ engines = << NewEngine(EngineName, "env1", "c1") >>
    /\ dict_order = << "a", "b" >>
    /\ last = IdleCall
    /\ faults = 0
    /\ reg = NoPan
    /\ inv = NoInv

\* the load pass constructs the next app, sets the marker and enters init_app
PanBeginInit ==
    \E n \in InstNames \ reg.inited :
        LET E == engines[1]
            obj == [path |-> "pA", instance_name |-> n, context |-> E.context,
                    settings |-> E.env]
        IN  /\ reg.phase \in {"before_load", "returned", "raised"}
            /\ engines' = [engines EXCEPT ![1].objs = Append(@, obj),
                                           ![1].currently_initializing_app = Len(E.objs) + 1]
            /\ reg' = [reg EXCEPT !.inited = @ \cup {n}, !.phase = "init_app"]
            /\ UNCHANGED <<g_current_engine, dict_order, last, faults, inv>>

\* init_app returns or raises: either way the finally clause resets the marker
PanEndInit ==
    \E how \in {"returned", "raised"} :
        /\ reg.phase = "init_app"
        /\ engines' = [engines EXCEPT ![1].currently_initializing_app = 0]
        /\ reg' = [reg EXCEPT !.phase = how]
        /\ UNCHANGED <<g_current_engine, dict_order, last, faults, inv>>

\* the load pass is over (the apps declared are through, or the host stops
\* here); a hook may run now
PanEndLoad ==
    /\ reg.phase \in {"returned", "raised"}
    /\ reg' = [reg EXCEPT !.phase = "after_load"]
    /\ UNCHANGED <<g_current_engine, engines, dict_order, last, faults, inv>>

\* the engine executes a hook, outside of any init_app
PanHook ==
    /\ reg.phase \in {"before_load", "after_load"}
    /\ reg' = [reg EXCEPT !.phase = "hook"]
    /\ UNCHANGED <<g_current_engine, engines, dict_order, last, faults, inv>>

\* the hook is over
PanEndHook ==
    /\ reg.phase = "hook"
    /\ reg' = [reg EXCEPT !.phase = "after_load"]
    /\ UNCHANGED <<g_current_engine, engines, dict_order, last, faults, inv>>

\* register_panel(callback, panel_name) is called, by the init_app that is
\* running, by a hook or by the host
PanRegister ==
    \E callback \in PanelCallbacks, panel_name \in PanelNames :
        LET E == engines[1]
            app == E.currently_initializing_app
            inst == IF app = 0 THEN "" ELSE E.objs[app].instance_name
            F == register_panel(Frame(E, g_current_engine), callback, panel_name)
        IN  /\ reg.n < MaxRegs
            /\ engines' = [engines EXCEPT ![1] = F.e]
            /\ reg' = [reg EXCEPT !.n = @ + 1,
                                  !.panel = [called |-> TRUE, phase |-> reg.phase,
                                             err |-> F.err, inst |-> inst,
                                             id |-> panel_id(inst, panel_name),
                                             callback |-> callback, before |-> E.panels]]
            /\ UNCHANGED <<g_current_engine, dict_order, last, faults, inv>>

\* the next load pass begins (a context change): the apps of the previous pass
\* are gone, the panels stay
PanNextLoad ==
    /\ reg.phase = "after_load"
    /\ engines' = [engines EXCEPT ![1].objs = << >>]
    /\ reg' = [reg EXCEPT !.phase = "before_load", !.inited = {}]
    /\ UNCHANGED <<g_current_engine, dict_order, last, faults, inv>>

NextPan == PanBeginInit \/ PanEndInit \/ PanEndLoad \/ PanHook \/ PanEndHook
           \/ PanRegister \/ PanNextLoad

SpecPan == InitPan /\ [][NextPan]_vars

\* C18: register_panel succeeds exactly while an init_app is executing: it then
\* stores the panel for the app that is initializing; at any other time (before
\* the load, after it, during a hook, after an init_app that returned or
\* raised) it fails with TankError and leaves the panel registry unchanged; the
\* marker is set exactly while an init_app is executing.
C18_PanelOnlyDuringInit ==
    /\ (engines[1].currently_initializing_app # 0) <=> (reg.phase = "init_app")
    /\ reg.panel.called =>
          IF reg.panel.phase = "init_app"
          THEN /\ reg.panel.err = ""
               /\ reg.panel.inst # ""
               /\ reg.panel.id \in DOMAIN engines[1].panels
               /\ engines[1].panels[reg.panel.id] =
                      [callback |-> reg.panel.callback, app |-> reg.panel.inst]
          ELSE /\ reg.panel.err = "TankError"
               /\ engines[1].panels = reg.panel.before

\* a register_panel call failed right after an init_app that raised, with
\* panels registered before
C18_Witness ==
    /\ reg.panel.called
    /\ reg.panel.phase = "raised"
    /\ reg.panel.err = "TankError"
    /\ reg.panel.before # EmptyMap
    /\ engines[1].panels = reg.panel.before

\* C16: Engine.destroy always leaves the global current-engine slot empty, also
\* when the destroy_app or the framework teardown of an active component raises.
C16_DestroyClearsSlot ==
    last.op = "destroy" => g_current_engine = 0

\* C17: when a component's destructor raises during Engine.destroy, the
\* component is skipped: every other active app still has destroy_app called,
\* and destroy_engine, the hooks-cache clear, the invoker release, the metrics
\* dispatcher stop and the log handler removal still run.
C17_FailingDestructorSkipped ==
    (last.op = "destroy" /\ last.fault \in {"destroy_framework", "destroy_app"}) =>
        /\ \A n \in DOMAIN last.before.applications : HasEv(last.log, "destroy_app", n)
        /\ {"destroy_engine", "clear_hooks_cache", "remove_log_handler"} \subseteq Kinds(last.log)
        /\ ~engines[last.eng].invoker
        /\ ~engines[last.eng].async_invoker
        /\ engines[last.eng].metrics_dispatcher # "started"
        /\ ~engines[last.eng].log_handler

\* the keys (install location, instance name) of the application pool
AppPoolKeys(E) ==
    UNION { { <<p, n>> : n \in DOMAIN E.application_pool[p] } : p \in DOMAIN E.application_pool }

Pooled(E) ==
    UNION { { E.application_pool[p][n] : n \in DOMAIN E.application_pool[p] } :
              p \in DOMAIN E.application_pool }

\* the app objects of the active map
Active(E) == { E.applications[n] : n \in DOMAIN E.applications }

\* C20: after a load pass, the application pool holds an app if and only if
\* its class supports context changes and it was loaded successfully; an app
\* that does not support context changes is never reused: after a context
\* change the active map holds, for it, an instance constructed in this change.
C20_PoolHoldsExactlyReusable ==
    LoadPassed =>
        LET E == engines[last.eng]
        IN  /\ \A app \in Pooled(E) : app_context_change_allowed(E.objs[app].path)
            /\ \A app \in Active(E) :
                  app_context_change_allowed(E.objs[app].path) => app \in Pooled(E)
            /\ last.op = "change_context" =>
                  \A app \in Active(E) :
                     ~app_context_change_allowed(E.objs[app].path) =>
                         /\ app > Len(last.before.objs)
                         /\ app \notin Active(last.before)

\* C21: every application-pool entry stored under the key (install location
\* P, instance name N) is an app whose descriptor path is P and that was loaded
\* under the instance name N; no app is stored under the instance name of
\* another app.
C21_PoolKeyedByOwnInstance ==
    \A e \in DOMAIN engines :
        LET E == engines[e]
        IN  \A k \in AppPoolKeys(E) :
               LET app == E.application_pool[k[1]][k[2]]
               IN  /\ E.objs[app].path = k[1]
                   /\ E.objs[app].instance_name = k[2]

\* the apps whose post_context_change raises in the last call
PostHookRaisers == { n \in DOMAIN last.orc : last.orc[n].reuse = "hook" }

\* the last call is a context change that got past its checks and in which
\* nothing misbehaves but pre_context_change or post_context_change of apps
OnlyAppHooksRaise ==
    /\ last.op = "change_context"
    /\ "engine_pre_context_change" \in Kinds(last.log)
    /\ last.fault \in {"none", "app_pre_context_change"}
    /\ \A n \in DOMAIN last.orc : last.orc[n] \in {AppOk, [AppOk EXCEPT !.reuse = "hook"]}

\* C22: an exception raised by an app's own pre_context_change or
\* post_context_change during change_context is caught: change_context returns
\* normally, pre_context_change is still called for every pooled app, and the
\* engine ends in the new context.
C22_AppHookFailureAbsorbed ==
    (OnlyAppHooksRaise /\ (last.fault = "app_pre_context_change" \/ PostHookRaisers # {})) =>
        /\ last.err = ""
        /\ engines[last.eng].context = last.ctx
        /\ \A k \in AppPoolKeys(last.before) : HasEv(last.log, "app_pre_context_change", k[2])

\* the positions of the events of a kind in a trace
Pos(log, k) == { i \in DOMAIN log : log[i].k = k }

\* the position of the one event of a kind
The(log, k) == CHOOSE i \in Pos(log, k) : TRUE

\* C23: a successful change_context runs the global pre-change hook, then the
\* apps' pre-change hooks, then swaps environment and context, then loads the
\* apps with reuse enabled and the old context supplied, then runs the engine's
\* post-change hook, then the global post-change hook; every step before the
\* swap sees the old context and every step after it the new one.
C23_ChangeContextOrder ==
    (last.op = "change_context" /\ last.err = "") =>
        LET L == last.log
            old == last.before.context
            decl == get_apps(engines[last.eng].env)
        IN  /\ \A k \in {"core_pre_context_change", "swap", "load_apps", "load_done",
                          "engine_post_context_change", "core_post_context_change"} :
                  Cardinality(Pos(L, k)) = 1
            /\ \A i \in Pos(L, "app_pre_context_change") :
                  The(L, "core_pre_context_change") < i /\ i < The(L, "swap")
            /\ The(L, "swap") < The(L, "load_apps")
            /\ The(L, "load_apps") < The(L, "load_done")
            /\ The(L, "load_done") < The(L, "engine_post_context_change")
            /\ The(L, "engine_post_context_change") < The(L, "core_post_context_change")
            /\ \A i \in Pos(L, "reuse") \cup Pos(L, "post_context_change") \cup Pos(L, "init_app") :
                  The(L, "load_apps") < i /\ i < The(L, "load_done")
            /\ \A i \in DOMAIN L :
                  L[i].c = IF i < The(L, "swap") THEN old ELSE last.ctx
            /\ \A i \in DOMAIN decl :
                  (<<decl[i].path, decl[i].name>> \in AppPoolKeys(last.before)
                      /\ last.orc[decl[i].name] = AppOk)
                  => /\ HasEv(L, "reuse", decl[i].name)
                     /\ ~HasEv(L, "init_app", decl[i].name)

\* a change into another context succeeded; pooled apps got their pre-change
\* hook, one app was reused and one was constructed
C23_Witness ==
    /\ last.op = "change_context"
    /\ last.err = ""
    /\ last.ctx # last.before.context
    /\ Pos(last.log, "app_pre_context_change") # {}
    /\ Pos(last.log, "reuse") # {}
    /\ Pos(last.log, "init_app") # {}

\* C24: in change_context the apps that receive pre_context_change are exactly
\* the apps of the active map at the time of the call, each of them once (an
\* app that does not support context changes included, an app that is only in
\* the pool excluded).
C24_PreHooksForActiveApps ==
    (last.op = "change_context" /\ "swap" \in Kinds(last.log)) =>
        LET pre == Pos(last.log, "app_pre_context_change")
        IN  /\ { last.log[i].o : i \in pre } = Active(last.before)
            /\ \A i, j \in pre : last.log[i].o = last.log[j].o => i = j

\* the declared apps whose in-place update raised in the last call
ReuseFailed == { n \in DOMAIN last.orc : HasEv(last.log, "reuse_failed", n) }

\* C25: when the in-place update of a pooled app raises, the load goes on: the
\* app is constructed anew in the same pass, the active map holds the fresh
\* instance under that instance name (none if the construction fails too), and
\* every declared app after it is still handled.
C25_FailedReuseRebuilds ==
    (last.op = "change_context" /\ "load_apps" \in Kinds(last.log)) =>
        LET E == engines[last.eng]
            L == last.log
            decl == get_apps(E.env)
        IN  /\ "load_done" \in Kinds(L)
            /\ \A n \in ReuseFailed :
                  /\ \E i \in Pos(L, "reuse_failed") :
                        /\ L[i].n = n
                        /\ \E j \in Pos(L, "init_app") \cup Pos(L, "build_failed") :
                              j > i /\ L[j].n = n
                  /\ IF last.orc[n].build = "ok"
                     THEN /\ n \in DOMAIN E.applications
                          /\ E.applications[n] > Len(last.before.objs)
                          /\ E.applications[n] \notin Pooled(last.before)
                          /\ E.objs[E.applications[n]].instance_name = n
                     ELSE n \notin DOMAIN E.applications
            /\ \A i \in DOMAIN decl : \E j \in DOMAIN L :
                  /\ L[j].n = decl[i].name
                  /\ L[j].k \in {"reuse", "init_app", "build_failed", "skip_missing", "skip_invalid"}

\* the in-place update of the first declared app raised in its hook, the app
\* was constructed anew and the second declared app was updated in place
C25_Witness ==
    /\ last.op = "change_context"
    /\ last.err = ""
    /\ ReuseFailed = {"a"}
    /\ last.orc["a"].reuse = "hook"
    /\ "a" \in DOMAIN engines[last.eng].applications
    /\ engines[last.eng].applications["a"] > Len(last.before.objs)
    /\ "b" \in DOMAIN engines[last.eng].applications
    /\ engines[last.eng].applications["b"] \in Pooled(last.before)

\* the inputs of the last call with every post_engine_init returning normally
WithoutPostInitFailures == [n \in DOMAIN last.orc |-> [last.orc[n] EXCEPT !.pei = FALSE]]

\* the engine the last call (a start or a context change that got through its
\* load pass) leaves behind when the apps behave as orc says
EngineAfterLastCall(orc) ==
    IF last.op = "change_context"
    THEN change_context(Frame(last.before, last.slot_before), last.ctx, last.fault, 0,
                        orc, dict_order).e
    ELSE start_engine(Frame(NullEngine, last.slot_before), last.eng, EngineName, NoCtx,
                      last.ctx, last.fault, orc, dict_order).e

\* C26: an app whose post_engine_init raises in the post-load pass stays in
\* the active map, and the active map, the registry and the pools are what
\* they are when no post_engine_init raises; post_engine_init is called on
\* every active app, the ones after the failing app included.
C26_FailedPostInitKeepsApp ==
    (LoadPassed /\ Pos(last.log, "post_engine_init_failed") # {}) =>
        LET E == engines[last.eng]
            L == last.log
        IN  /\ \A i \in Pos(L, "post_engine_init_failed") :
                  /\ L[i].n \in DOMAIN E.applications
                  /\ E.applications[L[i].n] = L[i].o
            /\ E = EngineAfterLastCall(WithoutPostInitFailures)
            /\ { L[i].o : i \in Pos(L, "post_engine_init") } = Active(E)

\* the post_engine_init of the first of two active apps raised and the second
\* app had its post_engine_init after that
C26_Witness ==
    /\ LoadPassed
    /\ \E i \in Pos(last.log, "post_engine_init_failed") :
          /\ last.log[i].n \in DOMAIN engines[last.eng].applications
          /\ \E j \in Pos(last.log, "post_engine_init") :
                j > i /\ last.log[j].n # last.log[i].n

\* C27: in a start, the engine's validation and its framework setup complete
\* before the first init_app, no post_engine_init runs before the load pass is
\* over for every declared app, and a validation failure of the engine ends
\* the start before any app is constructed.
C27_StartOrder ==
    last.op = "start_engine" =>
        LET L == last.log
        IN  /\ \A i \in Pos(L, "init_app") \cup Pos(L, "build_failed") \cup Pos(L, "load_apps") :
                  /\ \E j \in Pos(L, "validate") : j < i
                  /\ \E j \in Pos(L, "setup_frameworks") : j < i
            /\ \A i \in Pos(L, "post_engine_init") :
                  /\ \E j \in Pos(L, "load_done") : j < i
                  /\ \A j \in Pos(L, "init_app") \cup Pos(L, "build_failed")
                                \cup Pos(L, "skip_missing") \cup Pos(L, "skip_invalid") : j < i
            /\ (last.fault \in {"validate", "setup_frameworks"} /\ last.fault \in Kinds(L)) =>
                  /\ last.err = "TankError"
                  /\ last.eng = 0
                  /\ g_current_engine = last.slot_before
                  /\ Pos(L, "load_apps") \cup Pos(L, "init_app") \cup Pos(L, "build_failed") = {}

\* a start in which two apps were initialized and then had post_engine_init
C27_Witness ==
    /\ last.op = "start_engine"
    /\ last.err = ""
    /\ Cardinality(Pos(last.log, "init_app")) = 2
    /\ Cardinality(Pos(last.log, "post_engine_init")) = 2

\* the positions of the teardown calls of the frameworks of the engine that
\* are shared, or that are not
FwPos(L, E, shared) ==
    { i \in Pos(L, "destroy_framework") :
        \E fw \in E.frameworks : fw.name = L[i].n /\ fw.is_shared = shared }

\* C28: a teardown that runs to its end destroys the non-shared frameworks of
\* the engine, then the shared ones, then every active app (its own frameworks
\* first, then destroy_app), then clears the global slot, then the hooks
\* cache, and stops the metrics dispatcher before it removes the log handler;
\* the dispatcher is started as the last step of the construction of an engine.
C28_DestroyOrder ==
    /\ (last.op = "destroy" /\ last.err = "") =>
          LET L == last.log
              E == last.before
          IN  /\ { L[i].n : i \in FwPos(L, E, FALSE) } =
                     { fw.name : fw \in { x \in E.frameworks : ~x.is_shared } }
              /\ { L[i].n : i \in FwPos(L, E, TRUE) } = E.shared_frameworks
              /\ \A i \in FwPos(L, E, FALSE), j \in FwPos(L, E, TRUE) : i < j
              /\ \A i \in Pos(L, "destroy_framework"), j \in Pos(L, "app_destroy_frameworks") : i < j
              /\ { L[i].n : i \in Pos(L, "destroy_app") } = DOMAIN E.applications
              /\ \A i \in Pos(L, "destroy_app") :
                    /\ i > 1
                    /\ L[i - 1].k = "app_destroy_frameworks"
                    /\ L[i - 1].n = L[i].n
              /\ Cardinality(Pos(L, "app_destroy_frameworks")) = Cardinality(Pos(L, "destroy_app"))
              /\ \A k \in {"destroy_engine", "set_current_engine", "clear_hooks_cache",
                            "remove_log_handler"} : Cardinality(Pos(L, k)) = 1
              /\ \A i \in Pos(L, "destroy_app") \cup Pos(L, "destroy_framework") :
                    i < The(L, "set_current_engine")
              /\ The(L, "set_current_engine") < The(L, "clear_hooks_cache")
              /\ The(L, "clear_hooks_cache") < The(L, "remove_log_handler")
              /\ E.metrics_dispatcher = "started" =>
                    /\ Cardinality(Pos(L, "metrics_stop")) = 1
                    /\ The(L, "clear_hooks_cache") < The(L, "metrics_stop")
                    /\ The(L, "metrics_stop") < The(L, "remove_log_handler")
              /\ engines[last.eng].metrics_dispatcher # "started"
    /\ last.op = "start_engine" =>
          \A i \in Pos(last.log, "metrics_start") :
              /\ \A k \in {"load_done", "post_app_init", "engine_init_hook"} :
                    \E j \in Pos(last.log, k) : j < i
              /\ \A j \in Pos(last.log, "init_app") \cup Pos(last.log, "post_engine_init") : j < i

\* a teardown of an engine with two frameworks, two active apps and a running
\* metrics dispatcher ran to its end
C28_Witness ==
    /\ last.op = "destroy"
    /\ last.err = ""
    /\ Cardinality(Pos(last.log, "destroy_framework")) = 2
    /\ Cardinality(Pos(last.log, "destroy_app")) = 2
    /\ Pos(last.log, "metrics_stop") # {}

\* C29: change_context called with the context the engine is in is a no-op: no
\* hook runs, no app is reloaded or constructed, and the active map, the
\* registry and the pools are as before the call.
C29_SameContextNoOp ==
    (last.op = "change_context" /\ last.ctx = last.before.context) =>
        /\ Kinds(last.log) \cap {"core_pre_context_change", "engine_pre_context_change",
                                 "app_pre_context_change", "post_context_change",
                                 "engine_post_context_change", "core_post_context_change",
                                 "load_apps", "reuse", "init_app", "post_engine_init"} = {}
        /\ engines[last.eng].applications = last.before.applications
        /\ engines[last.eng].commands = last.before.commands
        /\ engines[last.eng].application_pool = last.before.application_pool
        /\ engines[last.eng].command_pool = last.before.command_pool

\* the entries of the active registry that the load pass of the last call put
\* there: after a context change all of them, after a start the ones owned by
\* apps (the engine registers its own commands after the load pass)
LoadPassCommands(E) ==
    IF last.op = "change_context" THEN DOMAIN E.commands
    ELSE { k \in DOMAIN E.commands : E.ents[E.commands[k]].app # 0 }

\* C30: at the end of a load pass (in a start or in a context change) every
\* entry of the active command registry is in the command pool, under the same
\* key and as the same entry.
C30_CommandsSnapshotted ==
    LoadPassed =>
        LET E == engines[last.eng]
        IN  \A k \in LoadPassCommands(E) :
               /\ k \in DOMAIN E.command_pool
               /\ E.command_pool[k] = E.commands[k]

\* a context change reused one app, whose commands came back from the pool,
\* and constructed another, whose commands were registered in this pass
C30_Witness ==
    /\ LoadPassed
    /\ last.op = "change_context"
    /\ Pos(last.log, "reuse") # {}
    /\ Pos(last.log, "init_app") # {}
    /\ Cardinality(DOMAIN engines[last.eng].commands) >= 2
    /\ \E k \in DOMAIN engines[last.eng].commands : k \notin DOMAIN last.before.command_pool

\* C31: at the end of a load pass every registry entry that names an owning
\* app is owned by an app of the active map: an app whose init_app raised
\* after it registered commands, and a pooled app whose in-place update raised
\* after its commands were re-attached, leave no command in the registry.
C31_RegistryOwnersActive ==
    LoadPassed =>
        LET E == engines[last.eng]
        IN  \A k \in DOMAIN E.commands :
               E.ents[E.commands[k]].app # 0 => E.ents[E.commands[k]].app \in Active(E)

\* C32: register_command never overwrites: between two resets of the
\* registry, whatever the owners of the registrations (the same app twice, no
\* app at all), the registry holds one entry per call and the callback of
\* every call is that of some entry.
C32_RegisterNeverOverwrites ==
    LET E == engines[1]
    IN  /\ Cardinality(DOMAIN E.commands) = Len(reg.calls)
        /\ \A i \in DOMAIN reg.calls :
              \E k \in DOMAIN E.commands : E.ents[E.commands[k]].callback = reg.calls[i].callback

\* the key under which the registry of an engine holds an entry as its
\* properties describe it: "<prefix>:<name>" with a prefix, the name without
WellKeyed(E, k) ==
    LET ent == E.ents[E.commands[k]]
    IN  IF ent.prefix = "" THEN \A p \in InstNames \cup RegNames, n \in CmdNames :
                                    k # PrefixedName(p, n)
        ELSE /\ \E n \in CmdNames : k = PrefixedName(ent.prefix, n)
             /\ ent.app # 0
             /\ E.objs[ent.app].instance_name = ent.prefix

\* C33: every registry entry with a prefix p is stored under a key "p:<name>"
\* and is owned by an app whose instance name is p now; every entry without a
\* prefix is stored under an unprefixed name; also after a collision renaming
\* and after a context change that re-attaches pooled commands and reassigns
\* the instance name of a reused app.
C33_PrefixMatchesKeyAndOwner ==
    \A e \in DOMAIN engines : \A k \in DOMAIN engines[e].commands : WellKeyed(engines[e], k)

EngineCommandNames == {"Toggle Debug Logging", "Open Log Folder", "Reload and Restart"}

\* C35: a change_context that reaches the load of the apps empties the
\* registry and puts back only commands that have an owning app (re-attached
\* from the command pool or registered by an init_app of this pass): the
\* commands the engine registered for itself at the end of the start are not
\* in the registry after the change, and not in the command pool that a later
\* change would restore them from.
C35_EngineCommandsLostOnChange ==
    (last.op = "change_context" /\ "load_apps" \in Kinds(last.log)) =>
        LET E == engines[last.eng]
        IN  /\ DOMAIN E.commands \cap EngineCommandNames = {}
            /\ \A k \in DOMAIN E.commands :
                  /\ E.ents[E.commands[k]].app # 0
                  /\ \/ \E j \in DOMAIN last.before.command_pool :
                            last.before.command_pool[j] = E.commands[k]
                     \/ E.commands[k] > Len(last.before.ents)
            /\ \A k \in DOMAIN E.command_pool : E.ents[E.command_pool[k]].app # 0

\* a context change succeeded on an engine whose registry held the engine's
\* own commands, and left a registry with commands of apps only
C35_Witness ==
    /\ last.op = "change_context"
    /\ last.err = ""
    /\ EngineCommandNames \subseteq DOMAIN last.before.commands
    /\ DOMAIN engines[last.eng].commands # {}
    /\ DOMAIN engines[last.eng].commands \cap EngineCommandNames = {}

\* C36: the set of names that need prefixing only grows: no step of the
\* registration, and no beginning of a load pass, takes a name out of it; and
\* a name that is in the set although it was registered only once since the
\* registry was emptied (so that it collided in an earlier pass), by an app,
\* is stored under "<instance>:<name>" and not under the bare name.
C36_PrefixingNeverForgotten ==
    /\ [][engines[1].commands_that_need_prefixing \subseteq
             engines'[1].commands_that_need_prefixing]_vars
    /\ [](\A N \in CmdNames :
             (/\ N \in engines[1].commands_that_need_prefixing
              /\ Len(CallsOf(N)) = 1
              /\ CallsOf(N)[1].owner # 0) =>
                 /\ PrefixedName(CallsOf(N)[1].inst, N) \in DOMAIN engines[1].commands
                 /\ engines[1].ents[engines[1].commands[PrefixedName(CallsOf(N)[1].inst, N)]].callback
                        = CallsOf(N)[1].callback
                 /\ N \notin DOMAIN engines[1].commands)

\* "Foo" collided in an earlier pass; in this pass one app has registered it,
\* and its entry, the only one in the registry, carries the prefix
C36_Witness ==
    /\ "Foo" \in engines[1].commands_that_need_prefixing
    /\ Len(CallsOf("Foo")) = 1
    /\ CallsOf("Foo")[1].owner # 0
    /\ DOMAIN engines[1].commands = { PrefixedName(CallsOf("Foo")[1].inst, "Foo") }

\* the app objects that received destroy_app in a trace
Destroyed(log) == { log[i].o : i \in Pos(log, "destroy_app") }

\* C37: destroy_app is called only by Engine.destroy and only on the apps of
\* the active map at the time of the call, on all of them when no teardown
\* step raises: no start, context change or command query calls it, and an
\* app object that is not in the active map when the engine is destroyed (one
\* held only in the application pool, or one replaced by a fresh instance in
\* a context change) is never torn down.
C37_DestroyAppOnlyForActive ==
    /\ (last.op # "destroy") => Destroyed(last.log) = {}
    /\ (last.op = "destroy") =>
          /\ Destroyed(last.log) \subseteq Active(last.before)
          /\ (last.err = "") => Destroyed(last.log) = Active(last.before)
          /\ \A o \in DOMAIN last.before.objs :
                o \notin Active(last.before) => o \notin Destroyed(last.log)

\* an engine with active apps, an app that is only in the pool and an app
\* object that was replaced was destroyed without an error
C37_Witness ==
    /\ last.op = "destroy"
    /\ last.err = ""
    /\ Destroyed(last.log) # {}
    /\ \E o \in DOMAIN last.before.objs :
          /\ o \in Pooled(last.before) \ Active(last.before)
          /\ o \notin Destroyed(last.log)
    /\ \E q \in DOMAIN last.before.objs :
          /\ q \notin Pooled(last.before) \cup Active(last.before)
          /\ q \notin Destroyed(last.log)

-----------------------------------------------------------------------------
(* start_shotgun_engine and _restart_engine *)

EntityTypes == {"Task", "Note"}

\* entity_type.lower()
lower(entity_type) ==
    CASE entity_type = "Task" -> "task"
      [] entity_type = "Note" -> "note"
      [] OTHER -> entity_type

\* "shotgun_%s" % entity_type.lower()
shotgun_environment(entity_type) == "shotgun_" \o lower(entity_type)

\* the calls of start_shotgun_engine that can raise out of it
ShotgunFaults == StartFaults \ {"core_pre_context_change", "core_post_context_change"}

\* the contexts of the calls that start, restart and destroy whole engines
LifeContexts == {"c0", "c1", "c2"}

\* the inputs of a call in which at most one call into outside code raises
\* and every app loads
FaultInputs(env, points, budget) ==
    {NoFault(env)} \cup
    IF budget < 1 THEN {}
    ELSE { [NoFault(env) EXCEPT !.fault = f] : f \in points \ {"none"} }

\* the engine that is running is looked at first
start_shotgun_engine_checks_running(F0, new_id, entity_type, context, fault, orc, ord) ==
    LET env == shotgun_environment(entity_type)
        find(F) == IF SHOTGUN_ENGINE_NAME \notin get_engines(env)
                   THEN Raise(Log(F, "get_environment", 0, ""), "TankEngineInitError")
                   ELSE Log(F, "get_environment", 0, "")
        local(F) == Call(F, "exists_local", fault, "TankEngineInitError")
        plugin(F) == Call(F, "load_plugin", fault, "TankError")
        construct(F) == engine_init(Log(F, "construct_engine", 0, ""), SHOTGUN_ENGINE_NAME,
                                    env, context, fault, orc, ord)
        set_current(F) == [F EXCEPT !.g_current_engine = new_id]
    IN  Then(Then(Then(Then(Then(check_not_running(F0), find), local), plugin), construct),
             set_current)

\* start_shotgun_engine(tk, entity_type, context); new_id is the identity of
\* the engine object the call constructs
start_shotgun_engine(F0, new_id, entity_type, context, fault, orc, ord) ==
    LET env == shotgun_environment(entity_type)
        find(F) == IF SHOTGUN_ENGINE_NAME \notin get_engines(env)
                   THEN Raise(Log(F, "get_environment", 0, ""), "TankEngineInitError")
                   ELSE Log(F, "get_environment", 0, "")
        local(F) == Call(F, "exists_local", fault, "TankEngineInitError")
        plugin(F) == Call(F, "load_plugin", fault, "TankError")
        construct(F) == engine_init(Log(F, "construct_engine", 0, ""), SHOTGUN_ENGINE_NAME,
                                    env, context, fault, orc, ord)
        set_current(F) == [F EXCEPT !.g_current_engine = new_id]
    IN  Then(Then(Then(Then(find(F0), local), plugin), construct), set_current)

\* the classes caught by "except TankError"
TankErrors == {"TankError", "TankEngineInitError"}

\* the except clauses of _restart_engine: the error is logged through the old
\* engine and the call returns
could_not_restart(R) ==
    IF R.err = "" THEN R
    ELSE [R EXCEPT !.err = "",
                   !.log = Append(@, Ev(IF R.err \in TankErrors THEN "log_error"
                                        ELSE "log_exception", 0, R.err, R.old.context))]

\* _restart_engine(new_context), NoCtx for None; F0 holds the engine of the
\* slot. The result has the old engine, the new one, the slot and the trace.
restart_engine(F0, new_id, new_context, fault, bad, orc, ord) ==
    IF F0.g_current_engine = 0
    THEN [old |-> F0.e, new |-> NullEngine, g_current_engine |-> 0, log |-> << >>,
          err |-> "AttributeError"]
    ELSE LET old_context == F0.e.context
             context == IF new_context = NoCtx THEN F0.e.context ELSE new_context
             D == destroy(F0, fault, bad, ord)
             S == start_engine([Frame(NullEngine, D.g_current_engine) EXCEPT !.log = D.log],
                               new_id, F0.e.instance_name, old_context, context, fault, orc, ord)
         IN  could_not_restart(
                 IF D.err # ""
                 THEN [old |-> D.e, new |-> NullEngine, g_current_engine |-> D.g_current_engine,
                       log |-> D.log, err |-> D.err]
                 ELSE [old |-> D.e, new |-> S.e, g_current_engine |-> S.g_current_engine,
                       log |-> S.log, err |-> S.err])

\* the inputs of a restart: one step of the teardown or of the start raises,
\* or apps misbehave in the load of the new engine
RestartInputs(E, env, budget) ==
    { [fault |-> d.fault, bad |-> d.bad, orc |-> AllOk(env)] : d \in DestroyInputs(E, budget) }
    \cup { [fault |-> i.fault, bad |-> "", orc |-> i.orc] :
               i \in FaultInputs(env, StartFaults, budget) }

\* the host calls start_engine(engine_name, tk, context)
LifeStartEngine ==
    /\ last.op = "idle"
    /\ \E ctx \in LifeContexts :
       \E inp \in FaultInputs(pick_environment(ctx), StartFaults, MaxFaults - faults) :
        LET new_id == Len(engines) + 1
            F == start_engine(Frame(NullEngine, g_current_engine), new_id, EngineName,
                              NoCtx, ctx, inp.fault, inp.orc, dict_order)
            kept == F.g_current_engine = new_id
        IN  /\ faults' = faults + InputCost(inp)
            /\ kept => new_id <= MaxEngines
            /\ Len(F.e.objs) <= MaxObjs
            /\ g_current_engine' = F.g_current_engine
            /\ engines' = IF kept THEN Append(engines, F.e) ELSE engines
            /\ last' = [IdleCall EXCEPT !.op = "start_engine", !.ctx = ctx, !.err = F.err,
                                         !.fault = inp.fault, !.orc = inp.orc,
                                         !.before = IF g_current_engine = 0 THEN NullEngine
                                                    ELSE engines[g_current_engine],
                                         !.log = F.log, !.slot_before = g_current_engine,
                                         !.eng = IF F.err = "" THEN new_id ELSE 0]
            /\ UNCHANGED <<dict_order, reg, inv>>

\* the host calls start_shotgun_engine(tk, entity_type, context)
StartShotgunEngine ==
    /\ last.op = "idle"
    /\ \E entity_type \in EntityTypes, ctx \in LifeContexts :
       \E inp \in FaultInputs(shotgun_environment(entity_type), ShotgunFaults,
                              MaxFaults - faults) :
        LET new_id == Len(engines) + 1
            F == start_shotgun_engine(Frame(NullEngine, g_current_engine), new_id, entity_type,
                                      ctx, inp.fault, inp.orc, dict_order)
            kept == F.g_current_engine = new_id
        IN  /\ faults' = faults + InputCost(inp)
            /\ kept => new_id <= MaxEngines
            /\ Len(F.e.objs) <= MaxObjs
            /\ g_current_engine' = F.g_current_engine
            /\ engines' = IF kept THEN Append(engines, F.e) ELSE engines
            /\ last' = [IdleCall EXCEPT !.op = "start_shotgun_engine", !.ctx = ctx,
                                         !.err = F.err, !.fault = inp.fault, !.orc = inp.orc,
                                         !.selector = [app_instance |-> "", name |-> entity_type],
                                         !.before = IF g_current_engine = 0 THEN NullEngine
                                                    ELSE engines[g_current_engine],
                                         !.log = F.log, !.slot_before = g_current_engine,
                                         !.eng = IF F.err = "" THEN new_id ELSE 0]
            /\ UNCHANGED <<dict_order, reg, inv>>

\* a command callback calls _restart_engine(new_context)
RestartEngine ==
    /\ last.op = "idle"
    /\ \E ctx \in LifeContexts \cup {NoCtx} :
        LET cur == g_current_engine
            E == IF cur = 0 THEN NullEngine ELSE engines[cur]
            context == IF ctx = NoCtx THEN E.context ELSE ctx
        IN  \E inp \in RestartInputs(E, pick_environment(context), MaxFaults - faults) :
            \E R \in { restart_engine(Frame(E, cur), Len(engines) + 1, ctx, inp.fault, inp.bad,
                                       inp.orc, dict_order) } :
            LET new_id == Len(engines) + 1
                kept == R.g_current_engine = new_id
                olds == IF cur = 0 THEN engines ELSE [engines EXCEPT ![cur] = R.old]
            IN  /\ faults' = faults + InputCost(inp)
                /\ kept => new_id <= MaxEngines
                /\ Len(R.new.objs) <= MaxObjs
                /\ g_current_engine' = R.g_current_engine
                /\ engines' = IF kept THEN Append(olds, R.new) ELSE olds
                /\ last' = [IdleCall EXCEPT !.op = "restart_engine", !.ctx = ctx,
                                             !.err = R.err, !.fault = inp.fault, !.orc = inp.orc,
                                             !.before = E, !.log = R.log, !.slot_before = cur,
                                             !.eng = IF kept THEN new_id ELSE 0]
                /\ UNCHANGED <<dict_order, reg, inv>>

NextLife == LifeStartEngine \/ StartShotgunEngine \/ RestartEngine \/ Destroy \/ Return

SpecLife == Init /\ [][NextLife]_vars

\* C38: destroy empties the global slot whatever engine the slot holds, and
\* start_shotgun_engine does not look at the slot: started for an entity type
\* whose environment has the shotgun engine, and with no outside call
\* raising, it succeeds and puts its engine in the slot whether or not an
\* engine is running. So after start_engine (E1), start_shotgun_engine (E2)
\* and E1.destroy() the slot is empty although E2 has not been destroyed.
C38_DestroyEmptiesForeignSlot ==
    /\ (last.op = "destroy" /\ last.err = "") => g_current_engine = 0
    /\ (/\ last.op = "start_shotgun_engine"
        /\ last.fault = "none"
        /\ SHOTGUN_ENGINE_NAME \in get_engines(shotgun_environment(last.selector.name))) =>
           /\ last.err = ""
           /\ last.eng # 0
           /\ g_current_engine = last.eng
           /\ engines[last.eng].instance_name = SHOTGUN_ENGINE_NAME
           /\ last.slot_before # 0 => ~engines[last.slot_before].destroyed

\* the engine E1 was destroyed while the slot held the shotgun engine E2: the
\* slot is empty and E2 is alive
C38_Witness ==
    /\ last.op = "destroy"
    /\ last.err = ""
    /\ last.before.instance_name = EngineName
    /\ last.slot_before \notin {0, last.eng}
    /\ engines[last.slot_before].instance_name = SHOTGUN_ENGINE_NAME
    /\ ~engines[last.slot_before].destroyed
    /\ g_current_engine = 0

\* the last call was a _restart_engine with an engine in the slot
Restarted == last.op = "restart_engine" /\ last.slot_before # 0

\* the restart logged "Could not restart the engine"
RestartFailed == Kinds(last.log) \cap {"log_error", "log_exception"} # {}

\* the restart got as far as starting the new engine
StartAttempted == "pick_environment" \in Kinds(last.log)

-----------------------------------------------------------------------------
(* Invoker.invoke to its end: hand-offs that fail, functions that call        *)
(* execute_in_main_thread themselves, and a main thread that keeps servicing  *)

\* a function that calls execute_in_main_thread(f) and returns what it gets
Nest == "nest"

\* the functions handed in: f returns, bad raises, nest calls back
LiveFuncs == {"f", "bad", Nest}

\* fn(*args, **kwargs) on the calling thread; the call nest makes takes the
\* same branch and runs f in place
run_in_place(rec, t, fn) ==
    IF fn = Nest THEN [run_direct(rec, t, "sync", "f") EXCEPT !.fn = Nest]
    ELSE run_direct(rec, t, "sync", fn)

\* thread t calls execute_in_main_thread(fn)
LiveCall ==
    \E t \in Threads, fn \in LiveFuncs :
        LET E == engines[1]
            rec == [IdleThread EXCEPT !.kind = "sync", !.fn = fn,
                                      !.had_invoker = invoker_of(E, "sync")]
        IN  /\ inv.th[t].pc = "idle"
            /\ inv.calls < MaxCalls
            /\ inv' = IF ~hands_off(E, "sync", inv.qapp, t)
                      THEN [inv EXCEPT !.calls = @ + 1, !.th[t] = run_in_place(rec, t, fn)]
                      ELSE [inv EXCEPT !.calls = @ + 1,
                                       !.th[t] = [rec EXCEPT !.pc = "acquire", !.mode = "handoff"]]
            /\ UNCHANGED <<g_current_engine, engines, dict_order, last, faults, reg>>

\* Invoker.invoke: invokeMethod raises instead of queueing the call; the
\* finally clause releases the lock and the error reaches the caller
LiveHandOffFails ==
    \E t \in Threads :
        /\ inv.th[t].pc = "locked"
        /\ inv' = [inv EXCEPT !.fn = inv.th[t].fn, !.res = None, !.lock = "",
                              !.th[t].raised = TRUE, !.th[t].pc = "done"]
        /\ UNCHANGED <<g_current_engine, engines, dict_order, last, faults, reg>>

\* the event loop of the main thread delivers the next queued call. When the
\* function is nest, the main thread is inside execute_in_main_thread before
\* _do_invoke returns: it runs f in place or, were it to hand off, waits for
\* the lock its caller holds
LiveService ==
    /\ inv.queue # << >>
    /\ inv.th[Main].pc \in {"idle", "done"}
    /\ LET req == Head(inv.queue)
           served == [inv EXCEPT !.queue = Tail(@),
                                 !.th[req.caller].pc = "read",
                                 !.th[req.caller].ran = TRUE,
                                 !.th[req.caller].on = Main]
       IN  inv' = IF inv.fn # Nest THEN [served EXCEPT !.res = do_invoke(inv)]
                  ELSE IF hands_off(engines[1], "sync", inv.qapp, Main)
                  THEN [inv EXCEPT !.queue = Tail(@),
                                   !.th[Main] = [IdleThread EXCEPT !.kind = "sync", !.fn = "f",
                                                                   !.pc = "acquire",
                                                                   !.mode = "handoff"]]
                  ELSE [served EXCEPT !.res = Val("f")]
    /\ UNCHANGED <<g_current_engine, engines, dict_order, last, faults, reg>>

NextLive == InvCreate \/ InvDestroy \/ LiveCall \/ InvAcquire \/ InvHandOff
            \/ LiveHandOffFails \/ LiveService \/ InvRelease \/ InvReturn

\* every thread that can take a step of invoke takes it in the end, and the
\* event loop of the main thread keeps delivering queued calls
LiveFairness ==
    /\ \A t \in Workers :
          /\ WF_vars(InvAcquire /\ inv'.th[t].pc = "locked")
          /\ WF_vars((InvHandOff \/ LiveHandOffFails) /\ inv'.th[t].pc \in {"blocked", "done"}
                        /\ inv.th[t].pc = "locked")
          /\ WF_vars(InvRelease /\ inv.th[t].pc = "read" /\ inv'.th[t].pc = "done")
    /\ WF_vars(LiveService)

SpecLive == InitInv /\ [][NextLive]_vars /\ LiveFairness

====
